---- MODULE Spec2Model ----
(***************************************************************************)
(* Download orchestration of the YouTube downloader:                       *)
(*   - EnhancedYouTubeDownloader.download_video and its strategy loop      *)
(*     (src/src/downloader/youtube_dl.py),                                 *)
(*   - download_playlist, the playlist batch driver (src/app/config.py),   *)
(*   - ProgressTracker (src/app/components/progress_tracker.py),           *)
(*   - PlaylistInfo and PlaylistDownloadResult (src/src/models/playlist.py).*)
(* The media backend (yt_dlp) is an environment: every backend call picks  *)
(* one of the outcomes yt_dlp can produce.                                 *)
(***************************************************************************)
EXTENDS Integers, Sequences, FiniteSets, TLC

\* ---------------------------------------------------------------- bounds
MaxRetry == 3          \* largest retry_count passed to download_video
MaxLen == 3            \* largest number of entries a playlist listing returns
MaxIndexOpt == 4       \* largest start_index / end_index typed into the form
MaxVideosOpt == 3      \* largest small value of the "Maximum videos" slider
MaxObjects == 2        \* largest number of DownloadProgress objects ever created
MaxFiles == 2          \* largest number of entries in output_dir
MaxResults == 3        \* largest number of results / videos held by a model object
MaxRuns == 3           \* largest number of _execute_download runs in one output_dir

\* ------------------------------------------------------ program constants
DefaultRetryCount == 3     \* download_video(url, retry_count = 3)
NumStrategies == 4         \* len(strategies)
MaxVideosLimit == 50       \* min(options.get('max_videos', 50), 50)
SliderMax == 100           \* max_value of the "Maximum videos" slider

strategies_reordered ==
    << "_strategy_standard", "_strategy_audio_fallback",
       "_strategy_fallback_quality", "_strategy_minimal_options" >>

\* The strategies list of _try_download_strategies, in list order.
strategies ==
    << "_strategy_standard", "_strategy_fallback_quality",
       "_strategy_audio_fallback", "_strategy_minimal_options" >>

\* ------------------------------------------------------------- the backend
\* Status markers an error text of the backend may contain.
MarkerSets == { {}, {"403"}, {"404"}, {"403", "404"} }

\* What one strategy's use of yt_dlp can do:
\*   ctor_raise      yt_dlp.YoutubeDL(ydl_opts) raises
\*   download_error  extract_info / download raises yt_dlp.utils.DownloadError
\*   exception       extract_info / download / file search raises another Exception
\*   no_info         extract_info returns nothing
\*   no_file         the download ran and no file is found
\*   ok              the download ran and the file is found
BackendOutcomes ==
    [kind : {"ctor_raise", "download_error", "exception"}, markers : MarkerSets]
    \cup [kind : {"no_info", "no_file", "ok"}, markers : {{}}]

NoFile == [video |-> 0, strategy |-> 0]
NoTitle == -1

\* A result dict {'success': False, 'error': ...}: the error text, the status
\* markers the text contains and the attempt count it quotes (0: none).
Failure(text, marks) ==
    [success |-> FALSE, raised |-> FALSE, error |-> text, markers |-> marks,
     attempts |-> 0, file |-> NoFile, title |-> NoTitle]

\* An exception that escapes instead of a dict.
Raised(marks) ==
    [success |-> FALSE, raised |-> TRUE, error |-> "Exception", markers |-> marks,
     attempts |-> 0, file |-> NoFile, title |-> NoTitle]

\* A result dict {'success': True, 'file_path': ..., ...}: the file is the one
\* strategy s produced for video u, the title is the one the backend
\* resolved for video u.
Success(u, s) ==
    [success |-> TRUE, raised |-> FALSE, error |-> "", markers |-> {},
     attempts |-> 0, file |-> [video |-> u, strategy |-> s], title |-> u]

NoResult == Failure("none", {})

execute_download_file_unchecked(u, s, o) ==
    CASE o.kind = "ctor_raise" -> Raised(o.markers)
      [] o.kind = "no_info" -> Failure("Could not extract video information", {})
      [] o.kind = "ok" -> Success(u, s)
      [] o.kind = "no_file" -> [Success(u, s) EXCEPT !.file = NoFile]
      [] o.kind = "download_error" ->
            IF "403" \in o.markers
            THEN Failure("Video access forbidden (403). Video may be restricted or private.", {"403"})
            ELSE IF "404" \in o.markers
            THEN Failure("Video not found (404). Video may have been deleted.", {"404"})
            ELSE Failure("Download error: <msg>", o.markers)
      [] OTHER -> Failure("Unexpected error: <msg>", o.markers)

\* _execute_download: the dict one strategy returns, or the exception it lets
\* escape (the YoutubeDL constructor sits outside its try block).
execute_download(u, s, o) ==
    CASE o.kind = "ctor_raise" -> Raised(o.markers)
      [] o.kind = "no_info" -> Failure("Could not extract video information", {})
      [] o.kind = "ok" -> Success(u, s)
      [] o.kind = "no_file" -> Failure("Download completed but file not found", {})
      [] o.kind = "download_error" ->
            IF "403" \in o.markers
            THEN Failure("Video access forbidden (403). Video may be restricted or private.", {"403"})
            ELSE IF "404" \in o.markers
            THEN Failure("Video not found (404). Video may have been deleted.", {"404"})
            ELSE Failure("Download error: <msg>", o.markers)
      [] OTHER -> Failure("Unexpected error: <msg>", o.markers)

\* ------------------------------------------------------------------ state
VARIABLES
    fpc,            \* position in download_video: idle / attempt_loop / strategy / returned / raised
    caller,         \* who called download_video: none / direct / batch
    url,            \* download_video's url (0: direct call, else the video id)
    retry_count,    \* download_video's retry_count
    attempt,        \* loop variable of download_video (0-based)
    strat,          \* loop variable i of _try_download_strategies, 1-based
    last_result,    \* what the last strategy returned or raised
    result,         \* the dict download_video returned
    calls,          \* history: the strategy runs of this download_video call
    all403,         \* history: every backend failure so far carried a "403" marker
    delays,         \* history: number of _add_random_delay(1.0, 3.0) of this call
    bpc,            \* position in download_playlist: idle / loop / fetching / done
    listing,        \* history: what the backend's listing call did ("none" before it)
    options,        \* the options dict of the playlist form
    playlist_data,  \* get_playlist_info's result
    range_videos,   \* history: videos[start_idx:end_idx]
    filtered_videos,
    idx,            \* loop variable i of the download loop, 1-based
    successful_downloads,
    failed_downloads,
    fetched,        \* history: the video of every download_video call of the batch
    ui_error,       \* the st.error shown by download_playlist, "" if none
    archive         \* the entries of the ZIP built by create_playlist_zip

VARIABLES
    downloads,      \* ProgressTracker.downloads: the dict, as its (key, object) items in order
    heap,           \* the live DownloadProgress objects, by reference
    next_ref,       \* the reference of the next DownloadProgress object created
    snapshot,       \* the list the last get_all_downloads call returned (object references)
    pdr,            \* a PlaylistDownloadResult object
    pinfo           \* a PlaylistInfo object

VARIABLES
    lock,           \* ProgressTracker.lock: the thread holding it, or None
    tpc,            \* per thread: idle / acquire (at "with self.lock") / body / release
    top,            \* per thread: the tracker method it is in, with its arguments
    tstep,          \* per thread: the next statement of the method's body
    tpre,           \* per thread: the tracker's state when the thread took the lock
    tres            \* per thread: the value the method is about to return

VARIABLES
    directory,      \* output_dir: its entries, in the order iterdir() yields them
    found,          \* the last call of _find_downloaded_file: arguments, directory, return value
    raw_url,        \* the string last given to the URL validator
    classified      \* what the URL validator made of raw_url

VARIABLES
    slept,          \* history: the delay, in tenths of a second, just slept before an attempt (0 once a strategy has run)
    quality,        \* EnhancedYouTubeDownloader.quality
    format_type,    \* EnhancedYouTubeDownloader.format_type
    ydl_opts,       \* history: the ydl_opts the strategies built in one pass of _try_download_strategies
    runs,           \* history: the _execute_download runs in output_dir: file written, file returned
    render,         \* render_progress_display: position, summary fetched, statuses shown
    selection       \* the last run of the filters of download_playlist: inputs and number selected

trackerVars == << downloads, heap, next_ref, snapshot >>
optsVars == << quality, format_type, ydl_opts >>
outputVars == << runs >>
renderVars == << render >>
selectVars == << selection >>
resolveVars == << directory, found >>
urlVars == << raw_url, classified >>
threadVars == << lock, tpc, top, tstep, tpre, tres >>
modelVars == << pdr, pinfo >>
fetchVars == << fpc, caller, url, retry_count, attempt, strat, last_result, result,
                calls, all403, delays, slept >>
batchVars == << bpc, listing, options, playlist_data, range_videos, filtered_videos, idx,
                successful_downloads, failed_downloads, fetched, ui_error, archive >>
vars == << fpc, caller, url, retry_count, attempt, strat, last_result, result,
           calls, all403, delays, bpc, listing, options, playlist_data, range_videos,
           filtered_videos, idx,
           successful_downloads, failed_downloads, fetched, ui_error, archive,
           downloads, heap, next_ref, snapshot, pdr, pinfo,
           lock, tpc, top, tstep, tpre, tres,
           directory, found, raw_url, classified,
           slept, quality, format_type, ydl_opts, runs, render, selection >>

NoOptions == [start_index |-> 1, end_index |-> 0, reverse_order |-> FALSE, max_videos |-> 50]
NoPlaylist == [success |-> FALSE, error |-> "none", videos |-> << >>, total_count |-> 0]

\* The keys of get_summary's dict: the four statuses.
Statuses == {"pending", "downloading", "completed", "failed"}

\* The threads that share the tracker, and a thread that is in no call.
Threads == {"fetch", "poll"}
NoThread == "<none>"
NoCall == [name |-> "none", id |-> "", title |-> "", p |-> 0, speed |-> "", eta |-> "", file_size |-> "", msg |-> ""]
NoTrackerState == [downloads |-> << >>, heap |-> << >>, next_ref |-> 1]
NoReturn == [list |-> << >>, raised |-> FALSE, summary |-> [s \in Statuses |-> 0]]

\* _find_downloaded_file's None, and the time before its first call.
NoPath == [stem |-> << >>, suffix |-> << >>, is_file |-> FALSE, mtime |-> 0]
NoSearch ==
    [called |-> FALSE, repeated |-> FALSE, title |-> << >>, video_id |-> << >>,
     dir |-> << >>, path |-> NoPath]

\* The time before the URL validator's first call.
NotClassified ==
    [called |-> FALSE, origin |-> << >>, reclassified |-> "no",
     is_video |-> FALSE, is_playlist |-> FALSE,
     video_id |-> [has |-> FALSE, value |-> << >>],
     playlist_id |-> [has |-> FALSE, value |-> << >>],
     normalized |-> << >>, cleaned |-> [url |-> << >>, valid |-> FALSE]]

\* The time before the filters of download_playlist were first applied.
NoSelection == [called |-> FALSE, total_videos |-> 0, options |-> NoOptions, count |-> 0]

\* render_progress_display before its first statement.
NoRender == [pc |-> "idle", summary |-> [s \in Statuses |-> 0], rows |-> << >>]

\* A model object that has not been constructed yet.
NoPlaylistDownloadResult ==
    [exists |-> FALSE, download_results |-> << >>, total_requested |-> 0,
     total_successful |-> 0, total_failed |-> 0]
NoPlaylistInfo == [exists |-> FALSE, videos |-> << >>, video_count |-> 0]

Init ==
    /\ fpc = "idle"
    /\ caller = "none"
    /\ url = 0
    /\ retry_count = DefaultRetryCount
    /\ attempt = 0
    /\ strat = 1
    /\ last_result = NoResult
    /\ result = NoResult
    /\ calls = << >>
    /\ all403 = TRUE
    /\ delays = 0
    /\ bpc = "idle"
    /\ listing = "none"
    /\ options = NoOptions
    /\ playlist_data = NoPlaylist
    /\ range_videos = << >>
    /\ filtered_videos = << >>
    /\ idx = 1
    /\ successful_downloads = << >>
    /\ failed_downloads = << >>
    /\ fetched = << >>
    /\ ui_error = ""
    /\ archive = << >>
    /\ downloads = << >>
    /\ heap = << >>
    /\ next_ref = 1
    /\ snapshot = << >>
    /\ pdr = NoPlaylistDownloadResult
    /\ pinfo = NoPlaylistInfo
    /\ lock = NoThread
    /\ tpc = [t \in Threads |-> "idle"]
    /\ top = [t \in Threads |-> NoCall]
    /\ tstep = [t \in Threads |-> 0]
    /\ tpre = [t \in Threads |-> NoTrackerState]
    /\ tres = [t \in Threads |-> NoReturn]
    /\ directory = << >>
    /\ found = NoSearch
    /\ raw_url = << >>
    /\ classified = NotClassified
    /\ slept = 0
    /\ quality = "best"
    /\ format_type = "mp4"
    /\ ydl_opts = << >>
    /\ runs = << >>
    /\ render = NoRender
    /\ selection = NoSelection

\* ---------------------------------------------------------------- helpers
Min(a, b) == IF a < b THEN a ELSE b
Max(a, b) == IF a > b THEN a ELSE b

\* Python's s[a:b] for a, b >= 0 (both are clamped to len(s)).
PySlice(s, a, b) ==
    LET lo == Min(a, Len(s))
        hi == Min(b, Len(s))
    IN  IF lo >= hi THEN << >> ELSE [k \in 1..(hi - lo) |-> s[lo + k]]

BoundedSeqs(S, n) == UNION { [1..k -> S] : k \in 0..n }

RECURSIVE ValidEntries(_, _)
\* The ids of the entries get_playlist_info keeps (entry and entry.get('id')),
\* in listing order; the id of an entry is its position in the listing.
ValidEntries(entries, k) ==
    IF k > Len(entries) THEN << >>
    ELSE (IF entries[k] THEN << k >> ELSE << >>) \o ValidEntries(entries, k + 1)

\* get_playlist_info: the listing call raises, returns nothing, or returns
\* entries (TRUE: an entry with an id, FALSE: an empty entry or one without).
ListingOutcomes ==
    [kind : {"raise", "no_info"}, entries : {<< >>}]
    \cup [kind : {"entries"}, entries : BoundedSeqs(BOOLEAN, MaxLen)]

get_playlist_info(l) ==
    CASE l.kind = "raise" ->
            [success |-> FALSE, error |-> "Playlist extraction failed: <msg>",
             videos |-> << >>, total_count |-> 0]
      [] l.kind = "no_info" ->
            [success |-> FALSE, error |-> "Could not extract playlist information",
             videos |-> << >>, total_count |-> 0]
      [] OTHER ->
            LET videos == ValidEntries(l.entries, 1) IN
            [success |-> TRUE, error |-> "", videos |-> videos, total_count |-> Len(videos)]

\* The options dict the playlist form returns.
FormOptions ==
    [start_index : 1..MaxIndexOpt, end_index : 0..MaxIndexOpt,
     reverse_order : BOOLEAN, max_videos : (1..MaxVideosOpt) \cup {SliderMax}]

\* "Apply filters" of download_playlist.
start_idx_one_based(opts) == Max(0, opts.start_index)
start_idx(opts) == Max(0, opts.start_index - 1)
end_idx(opts, total_videos) ==
    Min(total_videos, IF opts.end_index # 0 THEN opts.end_index ELSE total_videos)
max_videos(opts) == Min(opts.max_videos, MaxVideosLimit)
RangeSlice(videos, opts) == PySlice(videos, start_idx(opts), end_idx(opts, Len(videos)))
FilterVideos(videos, opts) == PySlice(RangeSlice(videos, opts), 0, max_videos(opts))

\* f"{n:03d}": the decimal digits of n, padded with zeros to three places
\* (n < 1000: a batch holds at most MaxVideosLimit videos).
ZeroPad3(n) == << (n \div 100) % 10, (n \div 10) % 10, n % 10 >>

create_playlist_zip_zero_based(successful) ==
    [i \in 1..Len(successful) |->
        [ordinal |-> i - 1, prefix |-> ZeroPad3(i - 1), file |-> successful[i].file]]

\* create_playlist_zip: one entry per successful download, in list order,
\* named f"{i+1:03d}_{filename}" (i the 0-based list index).
create_playlist_zip(successful) ==
    [i \in 1..Len(successful) |->
        [ordinal |-> i, prefix |-> ZeroPad3(i), file |-> successful[i].file]]

\* ------------------------------------------------------- download_video
\* `except Exception` (the strategy loop, download_video, the download loop of
\* download_playlist and its outer try): every exception the backend raises
\* is an Exception, so each of these handlers catches it.
catches_only_download_error(handler, r) == r.raised /\ r.error = "DownloadError"
catches(handler, r) == r.raised

\* for attempt in range(retry_count): the loop is over after retry_count rounds.
attempts_exhausted_early(a, n) == a >= n - 1
attempts_exhausted(a, n) == a >= n

\* for i, strategy in enumerate(strategies): the strategy after the i-th
\* (1-based), NumStrategies + 1 when the list is exhausted.
next_strategy_skipping(i) == IF i = 1 THEN 3 ELSE i + 1
next_strategy(i) == i + 1

\* Entry of download_video(u, n): the state at the head of the attempt loop.
enter_download_video(who, u, n) ==
    /\ fpc' = "attempt_loop"
    /\ caller' = who
    /\ url' = u
    /\ retry_count' = n
    /\ attempt' = 0
    /\ strat' = 1
    /\ last_result' = NoResult
    /\ result' = NoResult
    /\ calls' = << >>
    /\ all403' = TRUE
    /\ delays' = 0
    /\ slept' = 0

\* A caller invokes downloader.download_video(url, retry_count) directly.
download_video ==
    /\ fpc = "idle"
    /\ bpc = "idle"
    /\ \E n \in 1..MaxRetry : enter_download_video("direct", 0, n)
    /\ UNCHANGED batchVars
    /\ UNCHANGED << optsVars, outputVars, renderVars, selectVars, trackerVars, modelVars, threadVars, resolveVars, urlVars >>

\* random.uniform(lo, hi), in tenths of a second: a delay of the interval
\* [lo, hi]; the delays drawn are its two ends and its middle.
random_uniform(lo, hi) == { lo, (lo + hi) \div 2, hi }

\* The interval download_video passes to _add_random_delay: (1.0, 3.0).
retry_delay_default == [min_delay |-> 5, max_delay |-> 20]
retry_delay == [min_delay |-> 10, max_delay |-> 30]

\* for attempt in range(retry_count): the delay before a later attempt, then
\* the call of _try_download_strategies.
AttemptBegin ==
    /\ fpc = "attempt_loop"
    /\ ~attempts_exhausted(attempt, retry_count)
    /\ IF attempt > 0
       THEN /\ \E delay \in random_uniform(retry_delay.min_delay, retry_delay.max_delay) :
                 slept' = delay
            /\ delays' = delays + 1
       ELSE /\ slept' = 0
            /\ UNCHANGED delays
    /\ strat' = 1
    /\ fpc' = "strategy"
    /\ UNCHANGED << caller, url, retry_count, attempt, last_result, result, calls, all403 >>
    /\ UNCHANGED batchVars
    /\ UNCHANGED << optsVars, outputVars, renderVars, selectVars, trackerVars, modelVars, threadVars, resolveVars, urlVars >>

\* One iteration of the loop of _try_download_strategies: strategy(url) runs
\* against the backend. A success is returned through download_video; a
\* failure dict, or an exception the loop catches, moves on to the next
\* strategy, and after the last strategy ('All download strategies failed')
\* download_video moves on to its next attempt. An exception the loop did not
\* catch would reach download_video's handler (which returns 'All
\* {retry_count} attempts failed. Last error: ...' on the last attempt and
\* goes on to the next attempt otherwise), and past that one the caller.
try_download_strategies ==
    /\ fpc = "strategy"
    /\ \E o \in BackendOutcomes :
         LET r == execute_download(url, strat, o) IN
           /\ calls' = Append(calls, [attempt |-> attempt + 1, strategy |-> strat,
                                      name |-> strategies[strat], ok |-> r.success])
           /\ last_result' = r
           /\ all403' = (all403 /\ (r.success \/ "403" \in o.markers))
           /\ IF r.success
              THEN /\ result' = r
                   /\ fpc' = "returned"
                   /\ UNCHANGED << attempt, strat >>
              ELSE IF r.raised /\ ~catches("_try_download_strategies", r)
              THEN IF ~catches("download_video", r)
                   THEN /\ fpc' = "raised"
                        /\ UNCHANGED << attempt, strat, result >>
                   ELSE IF attempt = retry_count - 1
                   THEN /\ result' = [Failure("All <retry_count> attempts failed. Last error: <msg>",
                                              r.markers) EXCEPT !.attempts = retry_count]
                        /\ fpc' = "returned"
                        /\ UNCHANGED << attempt, strat >>
                   ELSE /\ fpc' = "attempt_loop"
                        /\ attempt' = attempt + 1
                        /\ UNCHANGED << strat, result >>
              ELSE IF next_strategy(strat) <= NumStrategies
              THEN /\ strat' = next_strategy(strat)
                   /\ UNCHANGED << fpc, attempt, result >>
              ELSE /\ fpc' = "attempt_loop"
                   /\ attempt' = attempt + 1
                   /\ UNCHANGED << strat, result >>
    /\ slept' = 0
    /\ UNCHANGED << caller, url, retry_count, delays >>
    /\ UNCHANGED batchVars
    /\ UNCHANGED << optsVars, outputVars, renderVars, selectVars, trackerVars, modelVars, threadVars, resolveVars, urlVars >>

\* The attempt loop is exhausted: return 'Failed after {retry_count} attempts'.
ReturnFailed ==
    /\ fpc = "attempt_loop"
    /\ attempts_exhausted(attempt, retry_count)
    /\ result' = [Failure("Failed after <retry_count> attempts", {})
                     EXCEPT !.attempts = retry_count]
    /\ fpc' = "returned"
    /\ UNCHANGED << caller, url, retry_count, attempt, strat, last_result, calls, all403, delays, slept >>
    /\ UNCHANGED batchVars
    /\ UNCHANGED << optsVars, outputVars, renderVars, selectVars, trackerVars, modelVars, threadVars, resolveVars, urlVars >>

\* ----------------------------------------------------- download_playlist
\* if not playlist_data['success']: ... return
listing_failed_never(data) == FALSE
listing_failed(data) == ~data.success

\* for i, video in enumerate(filtered_videos): the index after an item whose
\* download_video call gave r (n: the number of filtered videos).  The loop
\* moves on to the next item whatever r is.
next_index_break_on_failure(i, n, r) == IF r.success THEN i + 1 ELSE n + 1
next_index(i, n, r) == i + 1

\* download_playlist up to the download loop: the listing call, the early
\* return when it failed, and the filters.
download_playlist ==
    /\ bpc = "idle"
    /\ fpc = "idle"
    /\ \E l \in ListingOutcomes, opts \in FormOptions :
         LET data == get_playlist_info(l) IN
           /\ listing' = l.kind
           /\ options' = opts
           /\ playlist_data' = data
           /\ IF listing_failed(data)
              THEN /\ ui_error' = "Failed to fetch playlist"
                   /\ bpc' = "done"
                   /\ UNCHANGED << range_videos, filtered_videos >>
              ELSE /\ range_videos' = RangeSlice(data.videos, opts)
                   /\ filtered_videos' = FilterVideos(data.videos, opts)
                   /\ bpc' = "loop"
                   /\ UNCHANGED ui_error
    /\ idx' = 1
    /\ successful_downloads' = << >>
    /\ failed_downloads' = << >>
    /\ UNCHANGED << fetched, archive >>
    /\ UNCHANGED fetchVars
    /\ UNCHANGED << optsVars, outputVars, renderVars, selectVars, trackerVars, modelVars, threadVars, resolveVars, urlVars >>

\* Head of one loop iteration: downloader.download_video(video['url']).
BatchItemBegin ==
    /\ bpc = "loop"
    /\ idx <= Len(filtered_videos)
    /\ enter_download_video("batch", filtered_videos[idx], DefaultRetryCount)
    /\ fetched' = Append(fetched, filtered_videos[idx])
    /\ bpc' = "fetching"
    /\ UNCHANGED << listing, options, playlist_data, range_videos, filtered_videos, idx,
                    successful_downloads, failed_downloads, ui_error, archive >>
    /\ UNCHANGED << optsVars, outputVars, renderVars, selectVars, trackerVars, modelVars, threadVars, resolveVars, urlVars >>

\* download_video is over: a returned dict is filed under successful or
\* failed downloads; an exception is filed under failed downloads by the
\* loop's handler (past that handler it would reach the outer one, which
\* ends the batch with 'Playlist download failed'); the loop moves on.
BatchItemEnd ==
    /\ bpc = "fetching"
    /\ fpc \in {"returned", "raised"}
    /\ LET r == IF fpc = "raised" THEN last_result ELSE result IN
         IF r.raised /\ ~catches("download_playlist_item", r)
         THEN /\ ui_error' = "Playlist download failed"
              /\ bpc' = "done"
              /\ UNCHANGED << idx, successful_downloads, failed_downloads >>
         ELSE /\ IF r.success
                 THEN /\ successful_downloads' = Append(successful_downloads, r)
                      /\ UNCHANGED failed_downloads
                 ELSE /\ failed_downloads' =
                           Append(failed_downloads,
                                  [video |-> filtered_videos[idx], error |-> r.error])
                      /\ UNCHANGED successful_downloads
              /\ idx' = next_index(idx, Len(filtered_videos), r)
              /\ bpc' = "loop"
              /\ UNCHANGED ui_error
    /\ fpc' = "idle"
    /\ UNCHANGED << caller, url, retry_count, attempt, strat, last_result, result,
                    calls, all403, delays, slept >>
    /\ UNCHANGED << listing, options, playlist_data, range_videos, filtered_videos,
                    fetched, archive >>
    /\ UNCHANGED << optsVars, outputVars, renderVars, selectVars, trackerVars, modelVars, threadVars, resolveVars, urlVars >>

\* if successful_downloads: (a non-empty list is true)
has_successful_more_than_one(successful) == Len(successful) > 1
has_successful(successful) == successful # << >>

\* After the loop: the ZIP when something was downloaded, the error otherwise.
BatchPackage ==
    /\ bpc = "loop"
    /\ idx > Len(filtered_videos)
    /\ IF has_successful(successful_downloads)
       THEN /\ archive' = create_playlist_zip(successful_downloads)
            /\ UNCHANGED ui_error
       ELSE /\ ui_error' = "No videos were successfully downloaded from the playlist."
            /\ UNCHANGED archive
    /\ bpc' = "done"
    /\ UNCHANGED << listing, options, playlist_data, range_videos, filtered_videos, idx,
                    successful_downloads, failed_downloads, fetched >>
    /\ UNCHANGED fetchVars
    /\ UNCHANGED << optsVars, outputVars, renderVars, selectVars, trackerVars, modelVars, threadVars, resolveVars, urlVars >>

\* ------------------------------------------------------- ProgressTracker
\* The callers' arguments.
VideoIds == {"a", "b"}
Titles == {"t"}
ProgressInputs == {0, 5, 15}      \* progress in tenths: 0.0, 0.5 and 1.5
CompletedProgress == 10           \* progress = 1.0
MetaInputs ==
    { [speed |-> "", eta |-> "", file_size |-> ""],
      [speed |-> "1.2MB/s", eta |-> "00:30", file_size |-> "10MB"] }
ErrorMessages == {"403 forbidden"}
None == "<None>"

\* The dict self.downloads as its items in insertion order.
DictKeys(dict) == { dict[i].key : i \in 1..Len(dict) }
DictGet(dict, k) == dict[CHOOSE i \in 1..Len(dict) : dict[i].key = k].ref
DictSet(dict, k, r) ==
    IF k \in DictKeys(dict)
    THEN [i \in 1..Len(dict) |-> IF dict[i].key = k THEN [key |-> k, ref |-> r] ELSE dict[i]]
    ELSE Append(dict, [key |-> k, ref |-> r])

\* The objects still referenced by the dict or by the returned list; the
\* others are garbage.
Live(h, dict, snap) ==
    LET refs == { dict[i].ref : i \in 1..Len(dict) } \cup { snap[i] : i \in 1..Len(snap) }
    IN  [r \in (DOMAIN h) \cap refs |-> h[r]]

\* DownloadProgress(video_id, title, status='pending', progress=0.0, ...)
NewDownloadProgress(id, title) ==
    [video_id |-> id, title |-> title, status |-> "pending", progress |-> 0,
     speed |-> "", eta |-> "", file_size |-> "", error_message |-> None]

\* add_download: self.downloads[video_id] = DownloadProgress(...), whether
\* or not video_id is already a key.
add_download(id, title) ==
    /\ next_ref <= MaxObjects
    /\ downloads' = DictSet(downloads, id, next_ref)
    /\ heap' = Live((next_ref :> NewDownloadProgress(id, title)) @@ heap, downloads', snapshot)
    /\ next_ref' = next_ref + 1
    /\ UNCHANGED << optsVars, outputVars, renderVars, selectVars, snapshot, modelVars, fetchVars, batchVars, threadVars, resolveVars, urlVars >>

\* The assignments of update_progress to the object of a known video_id.
updated_record_wrong_threshold(rec, p, meta) ==
    [rec EXCEPT !.progress = p, !.speed = meta.speed, !.eta = meta.eta,
                !.file_size = meta.file_size,
                !.status = IF p > 5 THEN "downloading" ELSE @]
updated_record(rec, p, meta) ==
    [rec EXCEPT !.progress = p, !.speed = meta.speed, !.eta = meta.eta,
                !.file_size = meta.file_size,
                !.status = IF p > 0 THEN "downloading" ELSE @]

update_progress(id, p, meta) ==
    /\ IF id \in DictKeys(downloads)
       THEN heap' = [heap EXCEPT ![DictGet(downloads, id)] = updated_record(@, p, meta)]
       ELSE UNCHANGED heap
    /\ UNCHANGED << optsVars, outputVars, renderVars, selectVars, downloads, next_ref, snapshot, modelVars, fetchVars, batchVars, threadVars, resolveVars, urlVars >>

mark_completed(id) ==
    /\ IF id \in DictKeys(downloads)
       THEN heap' = [heap EXCEPT ![DictGet(downloads, id)] =
                        [@ EXCEPT !.status = "completed", !.progress = CompletedProgress]]
       ELSE UNCHANGED heap
    /\ UNCHANGED << optsVars, outputVars, renderVars, selectVars, downloads, next_ref, snapshot, modelVars, fetchVars, batchVars, threadVars, resolveVars, urlVars >>

\* The assignments of mark_failed to the object of a known video_id.
failed_record_progress_reset(rec, msg) ==
    [rec EXCEPT !.status = "failed", !.error_message = msg, !.progress = 0]
failed_record(rec, msg) == [rec EXCEPT !.status = "failed", !.error_message = msg]

mark_failed(id, msg) ==
    /\ IF id \in DictKeys(downloads)
       THEN heap' = [heap EXCEPT ![DictGet(downloads, id)] = failed_record(@, msg)]
       ELSE UNCHANGED heap
    /\ UNCHANGED << optsVars, outputVars, renderVars, selectVars, downloads, next_ref, snapshot, modelVars, fetchVars, batchVars, threadVars, resolveVars, urlVars >>

\* get_all_downloads: list(self.downloads.values()), a new list of the same
\* objects.
get_all_downloads ==
    /\ snapshot' = [i \in 1..Len(downloads) |-> downloads[i].ref]
    /\ heap' = Live(heap, downloads, snapshot')
    /\ UNCHANGED << optsVars, outputVars, renderVars, selectVars, downloads, next_ref, modelVars, fetchVars, batchVars, threadVars, resolveVars, urlVars >>

\* The filter of clear_completed.
kept_record_unless_finished(rec) == rec.status \notin {"completed", "failed"}
kept_record(rec) == rec.status # "completed"

clear_completed ==
    /\ downloads' = SelectSeq(downloads, LAMBDA item : kept_record(heap[item.ref]))
    /\ heap' = Live(heap, downloads', snapshot)
    /\ UNCHANGED << optsVars, outputVars, renderVars, selectVars, next_ref, snapshot, modelVars, fetchVars, batchVars, threadVars, resolveVars, urlVars >>

\* get_summary: the number of records per status; summary[download.status]
\* raises KeyError for a status that is not one of the four keys.
get_summary(records) ==
    LET known == { i \in 1..Len(records) : records[i].status \in Statuses }
    IN  [raised |-> known # 1..Len(records),
         summary |-> [s \in Statuses |->
                        Cardinality({ i \in known : records[i].status = s })]]

TrackerNext ==
    \/ \E id \in VideoIds, title \in Titles : add_download(id, title)
    \/ \E id \in VideoIds, p \in ProgressInputs, meta \in MetaInputs : update_progress(id, p, meta)
    \/ \E id \in VideoIds : mark_completed(id)
    \/ \E id \in VideoIds, msg \in ErrorMessages : mark_failed(id, msg)
    \/ get_all_downloads
    \/ clear_completed

SpecTracker == Init /\ [][TrackerNext]_vars

\* ------------------------------------ ProgressTracker under two threads
\* The calls a thread makes on the shared tracker.
TrackerCalls ==
    { [NoCall EXCEPT !.name = "add_download", !.id = id, !.title = "t"] : id \in VideoIds }
    \cup { [NoCall EXCEPT !.name = "update_progress", !.id = "a", !.p = 5,
                         !.speed = "1.2MB/s", !.eta = "00:30", !.file_size = "10MB"],
           [NoCall EXCEPT !.name = "mark_completed", !.id = "a"],
           [NoCall EXCEPT !.name = "mark_failed", !.id = "b", !.msg = "403 forbidden"],
           [NoCall EXCEPT !.name = "get_all_downloads"],
           [NoCall EXCEPT !.name = "clear_completed"],
           [NoCall EXCEPT !.name = "get_summary"] }

\* "with self.lock:" lets a thread in when no thread holds the lock.
lock_available_always == TRUE
lock_available == lock = NoThread

\* The attribute assignments in the body of update_progress, mark_completed
\* and mark_failed, in statement order.
body_statements(c) ==
    CASE c.name = "update_progress" ->
            << [field |-> "progress", value |-> c.p], [field |-> "speed", value |-> c.speed],
               [field |-> "eta", value |-> c.eta], [field |-> "file_size", value |-> c.file_size] >>
            \o (IF c.p > 0 THEN << [field |-> "status", value |-> "downloading"] >> ELSE << >>)
      [] c.name = "mark_completed" ->
            << [field |-> "status", value |-> "completed"],
               [field |-> "progress", value |-> CompletedProgress] >>
      [] c.name = "mark_failed" ->
            << [field |-> "status", value |-> "failed"],
               [field |-> "error_message", value |-> c.msg] >>
      [] OTHER -> << >>

\* The number of add_download calls that threads have begun and that have
\* not created their object yet.
PendingAdds ==
    Cardinality({ t \in Threads : /\ tpc[t] \in {"acquire", "body"}
                                  /\ top[t].name = "add_download" })

\* Thread t calls a method of the tracker and arrives at "with self.lock:".
TrackerCall(t, c) ==
    /\ tpc[t] = "idle"
    /\ (c.name = "add_download") => (next_ref + PendingAdds <= MaxObjects)
    /\ tpc' = [tpc EXCEPT ![t] = "acquire"]
    /\ top' = [top EXCEPT ![t] = c]
    /\ UNCHANGED << optsVars, outputVars, renderVars, selectVars, lock, tstep, tpre, tres, trackerVars, modelVars, fetchVars, batchVars, resolveVars, urlVars >>

\* Thread t enters the with block: it takes the lock.
LockAcquire(t) ==
    /\ tpc[t] = "acquire"
    /\ lock_available
    /\ lock' = t
    /\ tpc' = [tpc EXCEPT ![t] = "body"]
    /\ tstep' = [tstep EXCEPT ![t] = 1]
    /\ tpre' = [tpre EXCEPT ![t] = [downloads |-> downloads, heap |-> heap, next_ref |-> next_ref]]
    /\ tres' = [tres EXCEPT ![t] = NoReturn]
    /\ UNCHANGED << optsVars, outputVars, renderVars, selectVars, top, trackerVars, modelVars, fetchVars, batchVars, resolveVars, urlVars >>

\* Thread t, inside the with block, executes the next statement of its
\* method; after the last one it is at the end of the with block.
BodyStep(t) ==
    LET c == top[t]
        k == tstep[t]
        stmts == body_statements(c)
        leave == /\ tpc' = [tpc EXCEPT ![t] = "release"]
                 /\ UNCHANGED tstep
        go_on == /\ tstep' = [tstep EXCEPT ![t] = k + 1]
                 /\ UNCHANGED tpc
    IN
    /\ tpc[t] = "body"
    /\ CASE c.name = "add_download" ->
              /\ downloads' = DictSet(downloads, c.id, next_ref)
              /\ heap' = (next_ref :> NewDownloadProgress(c.id, c.title)) @@ heap
              /\ next_ref' = next_ref + 1
              /\ leave
              /\ UNCHANGED tres
         [] c.name \in {"update_progress", "mark_completed", "mark_failed"} ->
              /\ IF c.id \notin DictKeys(downloads)
                 THEN \* "if video_id in self.downloads" is false; in a later
                      \* statement self.downloads[video_id] is a KeyError
                      /\ tres' = [tres EXCEPT ![t].raised = (k > 1)]
                      /\ leave
                      /\ UNCHANGED heap
                 ELSE /\ heap' = [heap EXCEPT ![DictGet(downloads, c.id)][stmts[k].field] = stmts[k].value]
                      /\ IF k = Len(stmts) THEN leave ELSE go_on
                      /\ UNCHANGED tres
              /\ UNCHANGED << downloads, next_ref >>
         [] c.name = "get_all_downloads" ->
              /\ tres' = [tres EXCEPT ![t].list = [i \in 1..Len(downloads) |-> downloads[i].ref]]
              /\ leave
              /\ UNCHANGED << downloads, heap, next_ref >>
         [] c.name = "clear_completed" ->
              /\ downloads' = SelectSeq(downloads, LAMBDA item : kept_record(heap[item.ref]))
              /\ leave
              /\ UNCHANGED << heap, next_ref, tres >>
         [] c.name = "get_summary" ->
              \* for download in self.downloads.values(): summary[download.status] += 1
              /\ IF k > Len(downloads)
                 THEN leave /\ UNCHANGED tres
                 ELSE LET status == heap[downloads[k].ref].status IN
                      IF status \in Statuses
                      THEN /\ tres' = [tres EXCEPT ![t].summary[status] = @ + 1]
                           /\ go_on
                      ELSE /\ tres' = [tres EXCEPT ![t].raised = TRUE]
                           /\ leave
              /\ UNCHANGED << downloads, heap, next_ref >>
    /\ UNCHANGED << optsVars, outputVars, renderVars, selectVars, lock, top, tpre, snapshot, modelVars, fetchVars, batchVars, resolveVars, urlVars >>

\* Thread t leaves the with block, normally or by an exception: the lock is
\* released and the method returns.
LockRelease(t) ==
    /\ tpc[t] = "release"
    /\ lock' = NoThread
    /\ tpc' = [tpc EXCEPT ![t] = "idle"]
    /\ top' = [top EXCEPT ![t] = NoCall]
    /\ tstep' = [tstep EXCEPT ![t] = 0]
    /\ tpre' = [tpre EXCEPT ![t] = NoTrackerState]
    /\ tres' = [tres EXCEPT ![t] = NoReturn]
    /\ heap' = Live(heap, downloads, snapshot)
    /\ UNCHANGED << optsVars, outputVars, renderVars, selectVars, downloads, next_ref, snapshot, modelVars, fetchVars, batchVars, resolveVars, urlVars >>

ThreadsNext ==
    \/ \E t \in Threads, c \in TrackerCalls : TrackerCall(t, c)
    \/ \E t \in Threads : LockAcquire(t)
    \/ \E t \in Threads : BodyStep(t)
    \/ \E t \in Threads : LockRelease(t)

SpecThreads == Init /\ [][ThreadsNext]_vars

\* ------------------------------------- PlaylistInfo, PlaylistDownloadResult
\* The number of successful results in a list of results (TRUE: a
\* DownloadResult with success = True).
RECURSIVE CountSuccess(_)
CountSuccess(results) ==
    IF results = << >> THEN 0
    ELSE (IF results[1] THEN 1 ELSE 0) + CountSuccess(Tail(results))

\* PlaylistDownloadResult(playlist_info, download_results, total_requested,
\* total_successful, total_failed): __post_init__ replaces the two totals
\* passed in by the ones counted from download_results.
PlaylistDownloadResult_init ==
    /\ ~pdr.exists
    /\ \E results \in BoundedSeqs(BOOLEAN, MaxResults), total_successful \in 0..1, total_failed \in 0..1 :
         pdr' = [exists |-> TRUE, download_results |-> results,
                 total_requested |-> Len(results),
                 total_successful |-> CountSuccess(results),
                 total_failed |-> Len(results) - CountSuccess(results)]
    /\ UNCHANGED << optsVars, outputVars, renderVars, selectVars, pinfo, trackerVars, fetchVars, batchVars, threadVars, resolveVars, urlVars >>

\* A holder of the object appends a result to its download_results list; no
\* method of the class is involved and no field is recomputed.
download_results_append ==
    /\ pdr.exists
    /\ Len(pdr.download_results) < MaxResults
    /\ \E success \in BOOLEAN :
         pdr' = [pdr EXCEPT !.download_results = Append(@, success)]
    /\ UNCHANGED << optsVars, outputVars, renderVars, selectVars, pinfo, trackerVars, fetchVars, batchVars, threadVars, resolveVars, urlVars >>

\* PlaylistInfo(id, title, url, video_count = 0, videos = None):
\* __post_init__ turns videos = None into [] and leaves video_count as passed.
PlaylistInfo_init ==
    /\ ~pinfo.exists
    /\ \E videos \in BoundedSeqs({"a"}, MaxResults - 1) : \E count \in {0, Len(videos)} :
         pinfo' = [exists |-> TRUE, videos |-> videos, video_count |-> count]
    /\ UNCHANGED << optsVars, outputVars, renderVars, selectVars, pdr, trackerVars, fetchVars, batchVars, threadVars, resolveVars, urlVars >>

\* add_video: append, then video_count = len(self.videos).
add_video ==
    /\ pinfo.exists
    /\ Len(pinfo.videos) < MaxResults
    /\ \E v \in VideoIds :
         pinfo' = [pinfo EXCEPT !.videos = Append(@, v),
                                !.video_count = Len(pinfo.videos) + 1]
    /\ UNCHANGED << optsVars, outputVars, renderVars, selectVars, pdr, trackerVars, fetchVars, batchVars, threadVars, resolveVars, urlVars >>

ModelsNext ==
    \/ PlaylistDownloadResult_init
    \/ download_results_append
    \/ PlaylistInfo_init
    \/ add_video

SpecModels == Init /\ [][ModelsNext]_vars

\* ------------------------------------------------- _find_downloaded_file
\* Text is a sequence of characters.
LowerOf == [ch \in {"A", "B", "M", "P"} |->
               CASE ch = "A" -> "a" [] ch = "B" -> "b" [] ch = "M" -> "m" [] OTHER -> "p"]
Lower(text) == [i \in 1..Len(text) |-> IF text[i] \in DOMAIN LowerOf THEN LowerOf[text[i]] ELSE text[i]]

\* sub in text
Contains(sub, text) ==
    \E i \in 0..(Len(text) - Len(sub)) : SubSeq(text, i + 1, i + Len(sub)) = sub

chars_to_remove == {"|", ":", "*", "?", "\"", "<", ">", "/", "\\"}
Whitespace == {" ", "\t"}

\* re.sub(r'\s+', ' ', title): every run of whitespace becomes one space.
RECURSIVE CollapseWhitespace(_)
CollapseWhitespace(text) ==
    IF text = << >> THEN << >>
    ELSE IF Head(text) \in Whitespace
    THEN IF Len(text) > 1 /\ text[2] \in Whitespace
         THEN CollapseWhitespace(Tail(text))
         ELSE << " " >> \o CollapseWhitespace(Tail(text))
    ELSE << Head(text) >> \o CollapseWhitespace(Tail(text))

\* str.strip()
RECURSIVE Strip(_)
Strip(text) ==
    IF text = << >> THEN << >>
    ELSE IF Head(text) \in Whitespace THEN Strip(Tail(text))
    ELSE IF text[Len(text)] \in Whitespace THEN Strip(SubSeq(text, 1, Len(text) - 1))
    ELSE text

sanitize_for_search(title) ==
    Strip(CollapseWhitespace(SelectSeq(title, LAMBDA ch : ch \notin chars_to_remove)))

valid_extensions ==
    { << ".", "m", "p", "4" >>, << ".", "w", "e", "b", "m" >>, << ".", "m", "p", "3" >>,
      << ".", "m", "k", "v" >>, << ".", "m", "4", "a" >>, << ".", "w", "a", "v" >> }

\* max(recent_files, key=st_mtime): the first of the entries with the
\* largest modification time.
PyMaxByMtime(files) ==
    files[CHOOSE i \in 1..Len(files) :
             /\ \A j \in 1..Len(files) : files[j].mtime <= files[i].mtime
             /\ \A j \in 1..(i - 1) : files[j].mtime < files[i].mtime]

FirstIndex(S) == CHOOSE i \in S : \A j \in S : i <= j

\* The three strategies of _find_downloaded_file over the entries of
\* output_dir in iterdir() order.
find_downloaded_file_id_first(dir, title, video_id) ==
    LET clean_title == sanitize_for_search(title)
        by_title == { i \in 1..Len(dir) :
                        dir[i].is_file /\ Contains(Lower(clean_title), Lower(dir[i].stem)) }
        by_id == { i \in 1..Len(dir) : dir[i].is_file /\ Contains(video_id, dir[i].stem) }
        recent_files == SelectSeq(dir, LAMBDA f : f.is_file /\ Lower(f.suffix) \in valid_extensions)
    IN  IF by_id # {} THEN dir[FirstIndex(by_id)]
        ELSE IF by_title # {} THEN dir[FirstIndex(by_title)]
        ELSE IF recent_files # << >> THEN PyMaxByMtime(recent_files)
        ELSE NoPath
find_downloaded_file_without_recent(dir, title, video_id) ==
    LET clean_title == sanitize_for_search(title)
        by_title == { i \in 1..Len(dir) :
                        dir[i].is_file /\ Contains(Lower(clean_title), Lower(dir[i].stem)) }
        by_id == { i \in 1..Len(dir) : dir[i].is_file /\ Contains(video_id, dir[i].stem) }
    IN  IF by_title # {} THEN dir[FirstIndex(by_title)]
        ELSE IF by_id # {} THEN dir[FirstIndex(by_id)]
        ELSE NoPath
find_downloaded_file(dir, title, video_id) ==
    LET clean_title == sanitize_for_search(title)
        by_title == { i \in 1..Len(dir) :
                        dir[i].is_file /\ Contains(Lower(clean_title), Lower(dir[i].stem)) }
        by_id == { i \in 1..Len(dir) : dir[i].is_file /\ Contains(video_id, dir[i].stem) }
        recent_files == SelectSeq(dir, LAMBDA f : f.is_file /\ Lower(f.suffix) \in valid_extensions)
    IN  IF by_title # {} THEN dir[FirstIndex(by_title)]
        ELSE IF by_id # {} THEN dir[FirstIndex(by_id)]
        ELSE IF recent_files # << >> THEN PyMaxByMtime(recent_files)
        ELSE NoPath

\* What a call of _find_downloaded_file leaves of the directory: it only
\* reads (iterdir, is_file, stat).
directory_after_search_consuming(dir, path) == SelectSeq(dir, LAMBDA f : f # path)
directory_after_search(dir, path) == dir

\* The titles and ids searched for, and the entries the directory may get.
SearchTitles ==
    { << "a", ":", "B" >>, << " ", "a", "\t", " ", "b" >>, << "?" >>, << "q" >> }
SearchIds == { << "1" >>, << "9" >> }
Mtimes == 1..2
DirEntries ==
    { [stem |-> e.stem, suffix |-> e.suffix, is_file |-> TRUE, mtime |-> m] :
        e \in { [stem |-> << "A", "b" >>, suffix |-> << ".", "m", "p", "4" >>],
                [stem |-> << "A", " ", "B", "1" >>, suffix |-> << ".", "M", "P", "3" >>],
                [stem |-> << "z" >>, suffix |-> << ".", "m", "p", "4" >>] },
        m \in Mtimes }
    \cup { [stem |-> << "z", "1" >>, suffix |-> << ".", "p" >>, is_file |-> TRUE, mtime |-> 1],
           [stem |-> << "A", "b", "1" >>, suffix |-> << >>, is_file |-> FALSE, mtime |-> 1] }

Name(f) == f.stem \o f.suffix

\* The backend (or anything else) puts an entry into output_dir.
DirectoryGains ==
    /\ Len(directory) < MaxFiles
    /\ \E f \in DirEntries :
         /\ \A i \in 1..Len(directory) : Name(directory[i]) # Name(f)
         /\ \E k \in 0..Len(directory) :
              directory' = SubSeq(directory, 1, k) \o << f >> \o SubSeq(directory, k + 1, Len(directory))
    /\ UNCHANGED << optsVars, outputVars, renderVars, selectVars, found, urlVars, trackerVars, modelVars, fetchVars, batchVars, threadVars >>

\* A call self._find_downloaded_file(title, video_id); "repeated" notes
\* that the call before it had the same arguments and found the same
\* directory.
FindDownloadedFile(title, video_id) ==
    LET path == find_downloaded_file(directory, title, video_id) IN
    /\ found' = [called |-> TRUE,
                 repeated |-> (/\ found.called
                               /\ found.title = title /\ found.video_id = video_id
                               /\ found.dir = directory),
                 title |-> title, video_id |-> video_id, dir |-> directory, path |-> path]
    /\ directory' = directory_after_search(directory, path)
    /\ UNCHANGED << optsVars, outputVars, renderVars, selectVars, urlVars, trackerVars, modelVars, fetchVars, batchVars, threadVars >>

ResolveNext ==
    \/ DirectoryGains
    \/ \E title \in SearchTitles, video_id \in SearchIds : FindDownloadedFile(title, video_id)

SpecResolve == Init /\ [][ResolveNext]_vars

\* ------------------------------------------------------------ URLValidator
\* A URL is a sequence of characters.
\* The character class [a-zA-Z0-9_-].
IdChars ==
    { "a", "b", "c", "d", "e", "f", "g", "h", "i", "j", "k", "l", "m", "n", "o", "p", "q", "r", "s", "t", "u", "v", "w", "x", "y", "z" }
    \cup { "A", "B", "C", "D", "E", "F", "G", "H", "I", "J", "K", "L", "M", "N", "O", "P", "Q", "R", "S", "T", "U", "V", "W", "X", "Y", "Z" }
    \cup { "0", "1", "2", "3", "4", "5", "6", "7", "8", "9", "_", "-" }

StartsWith(text, lit) == Len(text) >= Len(lit) /\ SubSeq(text, 1, Len(lit)) = lit
Drop(text, n) == SubSeq(text, n + 1, Len(text))

\* The lengths of text that an optional group (?:a|b)? can consume.
Optional(text, lits) == {0} \cup { Len(l) : l \in { x \in lits : StartsWith(text, x) } }

\* The length of the longest prefix of text made of id characters.
RECURSIVE IdRun(_)
IdRun(text) == IF text # << >> /\ Head(text) \in IdChars THEN 1 + IdRun(Tail(text)) ELSE 0

\* The length of the longest prefix of text without whitespace.
RECURSIVE NonSpaceRun(_)
NonSpaceRun(text) ==
    IF text # << >> /\ Head(text) \notin Whitespace THEN 1 + NonSpaceRun(Tail(text)) ELSE 0

\* https?://    www\.    m\.
Http == { << "h", "t", "t", "p", ":", "/", "/" >>, << "h", "t", "t", "p", "s", ":", "/", "/" >> }
Www == { << "w", "w", "w", "." >> }
Mobile == { << "m", "." >> }

\* The length of the id group of YOUTUBE_VIDEO_PATTERNS: {11}.
video_id_length == 11

YOUTUBE_VIDEO_PATTERNS_without_short_link ==
    << [host |-> Www, literal |-> << "y", "o", "u", "t", "u", "b", "e", ".", "c", "o", "m", "/", "w", "a", "t", "c", "h", "?", "v", "=" >>],
       [host |-> Www, literal |-> << "y", "o", "u", "t", "u", "b", "e", ".", "c", "o", "m", "/", "s", "h", "o", "r", "t", "s", "/" >>],
       [host |-> Mobile, literal |-> << "y", "o", "u", "t", "u", "b", "e", ".", "c", "o", "m", "/", "w", "a", "t", "c", "h", "?", "v", "=" >>] >>

\* YOUTUBE_VIDEO_PATTERNS in list order: the optional host prefix and the
\* literal in front of the id group.
YOUTUBE_VIDEO_PATTERNS ==
    << [host |-> Www, literal |-> << "y", "o", "u", "t", "u", "b", "e", ".", "c", "o", "m", "/", "w", "a", "t", "c", "h", "?", "v", "=" >>],
       [host |-> Www, literal |-> << "y", "o", "u", "t", "u", ".", "b", "e", "/" >>],
       [host |-> Www, literal |-> << "y", "o", "u", "t", "u", "b", "e", ".", "c", "o", "m", "/", "s", "h", "o", "r", "t", "s", "/" >>],
       [host |-> Mobile, literal |-> << "y", "o", "u", "t", "u", "b", "e", ".", "c", "o", "m", "/", "w", "a", "t", "c", "h", "?", "v", "=" >>] >>

\* YOUTUBE_PLAYLIST_PATTERNS in list order: the optional host prefix, the
\* literal after it, whether .* follows, and the literal in front of the id
\* group.
YOUTUBE_PLAYLIST_PATTERNS ==
    << [host |-> Www, literal |-> << "y", "o", "u", "t", "u", "b", "e", ".", "c", "o", "m", "/", "p", "l", "a", "y", "l", "i", "s", "t", "?" >>, gap |-> FALSE, key |-> << "l", "i", "s", "t", "=" >>],
       [host |-> Www, literal |-> << "y", "o", "u", "t", "u", "b", "e", ".", "c", "o", "m", "/", "w", "a", "t", "c", "h", "?" >>, gap |-> TRUE, key |-> << "l", "i", "s", "t", "=" >>] >>

\* Where re.match lets a match begin: at the start of the string.
match_starts_anywhere(text) == 0..Len(text)
match_starts(text) == {0}

\* The offsets at which (?:https?://)?(?:host)? can end.
PrefixEnds(text, host) ==
    UNION { UNION { { b + s + h : h \in Optional(Drop(text, b + s), host) } :
                    s \in Optional(Drop(text, b), Http) } :
            b \in match_starts(text) }

\* re.match(pattern, url) with a video pattern: the values group(1) can take
\* (none: no match).
VideoMatches(pattern, text) ==
    LET n == Len(pattern.literal) IN
    { SubSeq(r, n + 1, n + video_id_length) :
        r \in { x \in { Drop(text, o) : o \in PrefixEnds(text, pattern.host) } :
                  /\ StartsWith(x, pattern.literal)
                  /\ IdRun(Drop(x, n)) >= video_id_length } }

\* re.match(pattern, url) with a playlist pattern: .* is greedy, so the id
\* group starts after the last "list=" that an id character follows, and
\* takes every id character there.
PlaylistMatches(pattern, text) ==
    LET n == Len(pattern.literal)
        m == Len(pattern.key)
        Keys(x) == { k \in (IF pattern.gap THEN 0..Len(x) ELSE {0}) :
                       /\ StartsWith(Drop(x, k), pattern.key)
                       /\ IdRun(Drop(x, k + m)) >= 1 }
        IdAt(x) == LET k == CHOOSE k \in Keys(x) : \A j \in Keys(x) : j <= k
                       after == Drop(x, k + m)
                   IN  SubSeq(after, 1, IdRun(after))
    IN  { IdAt(Drop(r, n)) :
            r \in { x \in { Drop(text, o) : o \in PrefixEnds(text, pattern.host) } :
                      StartsWith(x, pattern.literal) /\ Keys(Drop(x, n)) # {} } }

NoGroup == [has |-> FALSE, value |-> << >>]

\* for pattern in patterns: match = re.match(pattern, url); the first
\* pattern that matches gives group(1).
FirstVideoMatch(text) ==
    LET hits == { i \in 1..Len(YOUTUBE_VIDEO_PATTERNS) :
                    VideoMatches(YOUTUBE_VIDEO_PATTERNS[i], text) # {} }
    IN  IF hits = {} THEN NoGroup
        ELSE [has |-> TRUE,
              value |-> CHOOSE v \in VideoMatches(YOUTUBE_VIDEO_PATTERNS[FirstIndex(hits)], text) : TRUE]
FirstPlaylistMatch(text) ==
    LET hits == { i \in 1..Len(YOUTUBE_PLAYLIST_PATTERNS) :
                    PlaylistMatches(YOUTUBE_PLAYLIST_PATTERNS[i], text) # {} }
    IN  IF hits = {} THEN NoGroup
        ELSE [has |-> TRUE,
              value |-> CHOOSE v \in PlaylistMatches(YOUTUBE_PLAYLIST_PATTERNS[FirstIndex(hits)], text) : TRUE]

is_valid_youtube_url(text) == text # << >> /\ FirstVideoMatch(text).has
is_valid_youtube_playlist_url(text) == text # << >> /\ FirstPlaylistMatch(text).has
extract_video_id(text) == FirstVideoMatch(text)
extract_playlist_id(text) == FirstPlaylistMatch(text)

\* f"https://www.youtube.com/watch?v={video_id}" and
\* f"https://www.youtube.com/playlist?list={playlist_id}"
canonical_video_embed(id) == << "h", "t", "t", "p", "s", ":", "/", "/", "w", "w", "w", ".", "y", "o", "u", "t", "u", "b", "e", ".", "c", "o", "m", "/", "e", "m", "b", "e", "d", "/" >> \o id
canonical_video(id) == << "h", "t", "t", "p", "s", ":", "/", "/", "w", "w", "w", ".", "y", "o", "u", "t", "u", "b", "e", ".", "c", "o", "m", "/", "w", "a", "t", "c", "h", "?", "v", "=" >> \o id
canonical_playlist(id) == << "h", "t", "t", "p", "s", ":", "/", "/", "w", "w", "w", ".", "y", "o", "u", "t", "u", "b", "e", ".", "c", "o", "m", "/", "p", "l", "a", "y", "l", "i", "s", "t", "?", "l", "i", "s", "t", "=" >> \o id

normalize_url(text) ==
    IF is_valid_youtube_url(text) /\ extract_video_id(text).has
         /\ extract_video_id(text).value # << >>
    THEN canonical_video(extract_video_id(text).value)
    ELSE IF is_valid_youtube_playlist_url(text) /\ extract_playlist_id(text).has
              /\ extract_playlist_id(text).value # << >>
    THEN canonical_playlist(extract_playlist_id(text).value)
    ELSE text

\* re.search(r'https?://(?:www\.)?(?:youtube\.com|youtu\.be)/[^\s]+', url):
\* the leftmost match, or nothing.
SearchUrl(text) ==
    LET sites == { << "y", "o", "u", "t", "u", "b", "e", ".", "c", "o", "m", "/" >>, << "y", "o", "u", "t", "u", ".", "b", "e", "/" >> }
        EndsOfHead(x) ==
            UNION { UNION { { s + h + Len(d) : d \in { y \in sites : StartsWith(Drop(x, s + h), y) } } :
                            h \in Optional(Drop(x, s), Www) } :
                    s \in Optional(x, Http) \ {0} }
        Hits == { b \in 0..Len(text) :
                    \E e \in EndsOfHead(Drop(text, b)) : NonSpaceRun(Drop(text, b + e)) >= 1 }
    IN  IF Hits = {} THEN NoGroup
        ELSE LET b == FirstIndex(Hits) IN
             [has |-> TRUE, value |-> SubSeq(text, b + 1, b + NonSpaceRun(Drop(text, b)))]

\* validate_and_clean_url: (cleaned_url, is_valid)
validate_and_clean_url(text) ==
    IF text = << >> THEN [url |-> << >>, valid |-> FALSE]
    ELSE LET stripped == Strip(text)
             extracted == SearchUrl(stripped)
         IN  IF is_valid_youtube_url(stripped) \/ is_valid_youtube_playlist_url(stripped)
             THEN [url |-> normalize_url(stripped), valid |-> TRUE]
             ELSE IF /\ extracted.has
                     /\ \/ is_valid_youtube_url(extracted.value)
                        \/ is_valid_youtube_playlist_url(extracted.value)
             THEN [url |-> normalize_url(extracted.value), valid |-> TRUE]
             ELSE [url |-> stripped, valid |-> FALSE]

\* The strings given to the validator.
Schemes == { << >> } \cup Http
Hosts == { << >> } \cup Www \cup Mobile
ItemForms == { << "y", "o", "u", "t", "u", "b", "e", ".", "c", "o", "m", "/", "w", "a", "t", "c", "h", "?", "v", "=" >>, << "y", "o", "u", "t", "u", ".", "b", "e", "/" >>, << "y", "o", "u", "t", "u", "b", "e", ".", "c", "o", "m", "/", "s", "h", "o", "r", "t", "s", "/" >> }
ValidIds == { << "d", "Q", "w", "4", "w", "9", "W", "g", "X", "c", "Q" >>, << "a", "_", "b", "-", "c", "1", "D", "2", "E", "3", "F" >> }
OtherIds == { << "a", "b", "c", "1", "2", "3" >>, << "d", "Q", "w", "4", "w", "9", "W", "g", "X", "c", "Q", "Z" >> }
ItemTails == { << >>, << "&", "t", "=", "1" >>, << "&", "l", "i", "s", "t", "=", "P", "L", "x", "1" >> }
PlaylistIds == { << "P", "L", "x", "1" >>, << "P", "L", "r", "A", "X", "t", "m", "R", "d", "n", "E", "Q", "y", "6" >> }
PlaylistForms == { << "y", "o", "u", "t", "u", "b", "e", ".", "c", "o", "m", "/", "p", "l", "a", "y", "l", "i", "s", "t", "?", "l", "i", "s", "t", "=" >>, << "y", "o", "u", "t", "u", "b", "e", ".", "c", "o", "m", "/", "w", "a", "t", "c", "h", "?", "l", "i", "s", "t", "=" >> }
PlaylistTails == { << >>, << "&", "i", "n", "d", "e", "x", "=", "2" >> }
OtherInputs ==
    { << >>,
      << "i", "n", "v", "a", "l", "i", "d", "-", "u", "r", "l" >>,
      << "h", "t", "t", "p", "s", ":", "/", "/", "v", "i", "m", "e", "o", ".", "c", "o", "m", "/", "1", "2", "3", "4", "5", "6" >>,
      << "h", "t", "t", "p", "s", ":", "/", "/", "f", "a", "c", "e", "b", "o", "o", "k", ".", "c", "o", "m", "/", "v", "i", "d", "e", "o" >>,
      << "h", "t", "t", "p", "s", ":", "/", "/", "y", "o", "u", "t", "u", "b", "e", ".", "c", "o", "m", "/", "i", "n", "v", "a", "l", "i", "d" >>,
      << "h", "t", "t", "p", "s", ":", "/", "/", "w", "w", "w", ".", "y", "o", "u", "t", "u", "b", "e", ".", "c", "o", "m", "/", "e", "m", "b", "e", "d", "/", "d", "Q", "w", "4", "w", "9", "W", "g", "X", "c", "Q" >>,
      << "h", "t", "t", "p", "s", ":", "/", "/", "v", "i", "m", "e", "o", ".", "c", "o", "m", "/", "y", "o", "u", "t", "u", "b", "e", ".", "c", "o", "m", "/", "w", "a", "t", "c", "h", "?", "v", "=", "d", "Q", "w", "4", "w", "9", "W", "g", "X", "c", "Q" >>,
      << " ", "h", "t", "t", "p", "s", ":", "/", "/", "y", "o", "u", "t", "u", ".", "b", "e", "/", "d", "Q", "w", "4", "w", "9", "W", "g", "X", "c", "Q", " " >>,
      << "s", "e", "e", " ", "h", "t", "t", "p", "s", ":", "/", "/", "y", "o", "u", "t", "u", ".", "b", "e", "/", "d", "Q", "w", "4", "w", "9", "W", "g", "X", "c", "Q", " ", "n", "o", "w" >>,
      << " " >> }
UrlInputs ==
    { sc \o h \o f \o id \o tl :
        sc \in Schemes, h \in Hosts, f \in ItemForms, id \in ValidIds \cup OtherIds, tl \in ItemTails }
    \cup { sc \o h \o f \o id \o tl :
             sc \in Schemes, h \in Hosts, f \in PlaylistForms, id \in PlaylistIds, tl \in PlaylistTails }
    \cup OtherInputs

\* Everything URLValidator and validate_and_clean_url say about a string.
Classification(text, origin, again) ==
    [called |-> TRUE, origin |-> origin, reclassified |-> again,
     is_video |-> is_valid_youtube_url(text),
     is_playlist |-> is_valid_youtube_playlist_url(text),
     video_id |-> extract_video_id(text),
     playlist_id |-> extract_playlist_id(text),
     normalized |-> normalize_url(text),
     cleaned |-> validate_and_clean_url(text)]

\* A caller hands a string to the validator. The validator keeps no state:
\* a behaviour follows one string.
ClassifyUrl(text) ==
    /\ ~classified.called
    /\ raw_url' = text
    /\ classified' = Classification(text, text, "no")
    /\ UNCHANGED << optsVars, outputVars, renderVars, selectVars, resolveVars, trackerVars, modelVars, fetchVars, batchVars, threadVars >>

\* The caller hands the normalized URL back to the validator.
ReclassifyNormalized ==
    /\ classified.called
    /\ raw_url' = classified.normalized
    /\ classified' = Classification(raw_url', classified.origin, "normalized")
    /\ UNCHANGED << optsVars, outputVars, renderVars, selectVars, resolveVars, trackerVars, modelVars, fetchVars, batchVars, threadVars >>

\* The caller hands the cleaned URL of validate_and_clean_url back to it.
ReclassifyCleaned ==
    /\ classified.called
    /\ raw_url' = classified.cleaned.url
    /\ classified' = Classification(raw_url', classified.origin, "cleaned")
    /\ UNCHANGED << optsVars, outputVars, renderVars, selectVars, resolveVars, trackerVars, modelVars, fetchVars, batchVars, threadVars >>

UrlNext ==
    \/ \E text \in UrlInputs : ClassifyUrl(text)
    \/ ReclassifyNormalized
    \/ ReclassifyCleaned

SpecUrl == Init /\ [][UrlNext]_vars

Next ==
    \/ download_video
    \/ AttemptBegin
    \/ try_download_strategies
    \/ ReturnFailed
    \/ download_playlist
    \/ BatchItemBegin
    \/ BatchItemEnd
    \/ BatchPackage

Spec == Init /\ [][Next]_vars

TypeOK ==
    /\ fpc \in {"idle", "attempt_loop", "strategy", "returned", "raised"}
    /\ bpc \in {"idle", "loop", "fetching", "done"}
    /\ attempt \in 0..retry_count
    /\ strat \in 1..NumStrategies

\* ------------------------------- render_progress_display beside a worker
\* The calls the download thread makes on the tracker while the display
\* thread renders; each runs under the tracker's lock, as one step.
WorkerCalls ==
    { c \in TrackerCalls :
        c.name \in {"add_download", "update_progress", "mark_completed", "mark_failed"} }

WorkerCall(c) ==
    CASE c.name = "add_download" -> add_download(c.id, c.title)
      [] c.name = "update_progress" ->
            update_progress(c.id, c.p, [speed |-> c.speed, eta |-> c.eta, file_size |-> c.file_size])
      [] c.name = "mark_completed" -> mark_completed(c.id)
      [] OTHER -> mark_failed(c.id, c.msg)

\* downloads = tracker.get_all_downloads(); if not downloads: ... return
RenderList ==
    /\ render.pc = "idle"
    /\ snapshot' = [i \in 1..Len(downloads) |-> downloads[i].ref]
    /\ heap' = Live(heap, downloads, snapshot')
    /\ render' = IF downloads = << >> THEN NoRender ELSE [NoRender EXCEPT !.pc = "listed"]
    /\ UNCHANGED << downloads, next_ref, optsVars, outputVars, selectVars, modelVars,
                    fetchVars, batchVars, threadVars, resolveVars, urlVars >>

\* summary = tracker.get_summary(), then the four metrics; a KeyError ends
\* the render.
RenderSummary ==
    /\ render.pc = "listed"
    /\ LET s == get_summary([i \in 1..Len(downloads) |-> heap[downloads[i].ref]]) IN
         render' = IF s.raised THEN NoRender
                   ELSE [render EXCEPT !.pc = "summarized", !.summary = s.summary]
    /\ UNCHANGED << trackerVars, optsVars, outputVars, selectVars, modelVars,
                    fetchVars, batchVars, threadVars, resolveVars, urlVars >>

\* for download in downloads: render_single_progress(download), which shows
\* the status each object of the list has by now.
RenderRows ==
    /\ render.pc = "summarized"
    /\ render' = [render EXCEPT !.pc = "shown",
                                !.rows = [i \in 1..Len(snapshot) |-> heap[snapshot[i]].status]]
    /\ UNCHANGED << trackerVars, optsVars, outputVars, selectVars, modelVars,
                    fetchVars, batchVars, threadVars, resolveVars, urlVars >>

\* The end of the render; the list it held is dropped.  With completed
\* downloads in the summary the "Clear Completed" button is there and may have
\* been pressed: tracker.clear_completed().
RenderEnd(pressed) ==
    /\ render.pc = "shown"
    /\ pressed => render.summary["completed"] > 0
    /\ downloads' = IF pressed
                    THEN SelectSeq(downloads, LAMBDA item : kept_record(heap[item.ref]))
                    ELSE downloads
    /\ snapshot' = << >>
    /\ heap' = Live(heap, downloads', snapshot')
    /\ render' = NoRender
    /\ UNCHANGED << next_ref, optsVars, outputVars, selectVars, modelVars,
                    fetchVars, batchVars, threadVars, resolveVars, urlVars >>

RenderNext ==
    \/ \E c \in WorkerCalls : WorkerCall(c)
    \/ RenderList
    \/ RenderSummary
    \/ RenderRows
    \/ \E pressed \in BOOLEAN : RenderEnd(pressed)

SpecRender == Init /\ [][RenderNext]_vars

\* ------------------------------------- _execute_download in one output_dir
\* The videos downloaded into one output_dir one after the other: the title
\* and the id extract_info reports.
RunTitles == { << "A", "b" >>, << "q" >> }
RunIds == SearchIds

\* ydl.download([url]) with outtmpl '%(title)s.%(ext)s' and ignoreerrors: it
\* writes a file named after the title (a video file, or an mp3 after audio
\* extraction), or it fails, reports the error and writes nothing.
BackendWrites(title) ==
    { NoPath }
    \cup { [stem |-> title, suffix |-> x, is_file |-> TRUE, mtime |-> 0] :
             x \in { << ".", "m", "p", "4" >>, << ".", "m", "p", "3" >> } }

\* The time of the next write: later than every file in the directory.
NextMtime(dir) ==
    1 + (IF dir = << >> THEN 0
         ELSE PyMaxByMtime(dir).mtime)

\* One run of _execute_download whose extract_info succeeded: the download,
\* then the search for the file; the run returns success with the path found,
\* or 'Download completed but file not found'.  A file written replaces the
\* entry of the same name.
ExecuteDownload(title, video_id, wrote) ==
    LET file == IF wrote = NoPath THEN NoPath
                ELSE [wrote EXCEPT !.mtime = NextMtime(directory)]
        others == SelectSeq(directory, LAMBDA f : Name(f) # Name(file))
    IN
    /\ Len(runs) < MaxRuns
    /\ \E k \in 0..Len(others) :
         LET dir == IF wrote = NoPath THEN directory
                    ELSE SubSeq(others, 1, k) \o << file >> \o SubSeq(others, k + 1, Len(others))
             path == find_downloaded_file(dir, title, video_id)
         IN  /\ directory' = directory_after_search(dir, path)
             /\ found' = [called |-> TRUE, repeated |-> FALSE, title |-> title,
                          video_id |-> video_id, dir |-> dir, path |-> path]
             /\ runs' = Append(runs, [title |-> title, video_id |-> video_id,
                                      wrote |-> file, path |-> path])
    /\ UNCHANGED << optsVars, renderVars, selectVars, trackerVars, modelVars, fetchVars,
                    batchVars, threadVars, urlVars >>

OutputNext ==
    \E title \in RunTitles, video_id \in RunIds :
        \E wrote \in BackendWrites(title) : ExecuteDownload(title, video_id, wrote)

SpecOutput == Init /\ [][OutputNext]_vars

\* ------------------------------------------ the filters of download_playlist
\* The lengths of the playlists filtered: short ones, and ones around the
\* limit of 50 videos and the top of the slider.
PlaylistSizes == (0..MaxLen) \cup {MaxVideosLimit, MaxVideosLimit + 1, SliderMax}

\* "Apply filters" on a playlist of total_videos videos: the number of
\* videos selected ("{len(filtered_videos)} videos selected").
apply_filters(total_videos, opts) ==
    LET videos == [k \in 1..total_videos |-> k] IN
    /\ selection' = [called |-> TRUE, total_videos |-> total_videos, options |-> opts,
                     count |-> Len(FilterVideos(videos, opts))]
    /\ UNCHANGED << optsVars, outputVars, renderVars, trackerVars, modelVars, fetchVars,
                    batchVars, threadVars, resolveVars, urlVars >>

SelectNext == \E total_videos \in PlaylistSizes, opts \in FormOptions : apply_filters(total_videos, opts)

SpecSelect == Init /\ [][SelectNext]_vars

\* ------------------------------------- _get_ydl_opts and the strategies
\* The choices of the quality and format select boxes, and the entries of
\* self.user_agents by position.
Qualities == {"best", "1080p", "720p", "480p", "360p", "worst"}
FormatTypes == {"mp4", "webm", "mp3 (audio only)"}
NumUserAgents == 5
user_agents == 1..NumUserAgents

FFmpegExtractAudio ==
    [key |-> "FFmpegExtractAudio", preferredcodec |-> "mp3", preferredquality |-> "192"]

\* str.replace(old, new) for a one-character old.
RECURSIVE str_replace(_, _, _)
str_replace(text, old, new) ==
    IF text = "" THEN ""
    ELSE (IF SubSeq(text, 1, 1) = old THEN new ELSE SubSeq(text, 1, 1))
         \o str_replace(SubSeq(text, 2, Len(text)), old, new)

\* "Format selection based on quality and type" of _get_ydl_opts.
format_selector_mp4_only(q, f) ==
    IF f = "mp3 (audio only)" THEN "bestaudio/best"
    ELSE IF q = "best" THEN "best[ext=mp4]/best"
    ELSE IF q = "worst" THEN "worst[ext=mp4]/worst"
    ELSE LET height == str_replace(q, "p", "")
         IN  "best[height<=" \o height \o "][ext=mp4]/best[height<=" \o height \o "]/best"
format_selector(q, f) ==
    IF f = "mp3 (audio only)" THEN "bestaudio/best"
    ELSE IF q = "best" THEN "best[ext=" \o f \o "]/best"
    ELSE IF q = "worst" THEN "worst[ext=" \o f \o "]/worst"
    ELSE LET height == str_replace(q, "p", "")
         IN  "best[height<=" \o height \o "][ext=" \o f \o "]/best[height<="
             \o height \o "]/best"

postprocessors(f) == IF f = "mp3 (audio only)" THEN << FFmpegExtractAudio >> ELSE << >>

\* _get_ydl_opts(): the keys of base_opts that select what is requested
\* (format, postprocessors), ignoreerrors, and the user agent drawn by
\* random.choice; no strategy passes custom_opts.
get_ydl_opts(q, f, ua) ==
    [format |-> format_selector(q, f), postprocessors |-> postprocessors(f),
     ignoreerrors |-> TRUE, user_agent |-> ua]

\* EnhancedYouTubeDownloader(output_dir, quality, format_type)
EnhancedYouTubeDownloader_init(q, f) ==
    /\ quality' = q
    /\ format_type' = f
    /\ ydl_opts' = << >>
    /\ UNCHANGED << outputVars, renderVars, selectVars, trackerVars, modelVars, fetchVars, batchVars,
                    threadVars, resolveVars, urlVars >>

\* _strategy_standard, the first strategy of a pass of _try_download_strategies.
strategy_standard(ua) ==
    /\ Len(ydl_opts) \in {0, NumStrategies}
    /\ ydl_opts' = << get_ydl_opts(quality, format_type, ua) >>
    /\ UNCHANGED << quality, format_type >>
    /\ UNCHANGED << outputVars, renderVars, selectVars, trackerVars, modelVars, fetchVars, batchVars,
                    threadVars, resolveVars, urlVars >>

\* _strategy_fallback_quality
strategy_fallback_quality(ua) ==
    /\ Len(ydl_opts) = 1
    /\ ydl_opts' = Append(ydl_opts, [get_ydl_opts(quality, format_type, ua)
                                        EXCEPT !.format = "worst[ext=mp4]/worst"])
    /\ UNCHANGED << quality, format_type >>
    /\ UNCHANGED << outputVars, renderVars, selectVars, trackerVars, modelVars, fetchVars, batchVars,
                    threadVars, resolveVars, urlVars >>

\* _strategy_audio_fallback
strategy_audio_fallback(ua) ==
    /\ Len(ydl_opts) = 2
    /\ ydl_opts' = Append(ydl_opts, [get_ydl_opts(quality, format_type, ua)
                                        EXCEPT !.format = "bestaudio/best",
                                               !.postprocessors = << FFmpegExtractAudio >>])
    /\ UNCHANGED << quality, format_type >>
    /\ UNCHANGED << outputVars, renderVars, selectVars, trackerVars, modelVars, fetchVars, batchVars,
                    threadVars, resolveVars, urlVars >>

\* _strategy_minimal_options: a dict of its own, without a 'postprocessors'
\* key (no post-processing).
strategy_minimal_options(ua) ==
    /\ Len(ydl_opts) = 3
    /\ ydl_opts' = Append(ydl_opts, [format |-> "best", postprocessors |-> << >>,
                                     ignoreerrors |-> TRUE, user_agent |-> ua])
    /\ UNCHANGED << quality, format_type >>
    /\ UNCHANGED << outputVars, renderVars, selectVars, trackerVars, modelVars, fetchVars, batchVars,
                    threadVars, resolveVars, urlVars >>

OptsNext ==
    \/ \E q \in Qualities, f \in FormatTypes : EnhancedYouTubeDownloader_init(q, f)
    \/ \E ua \in user_agents : strategy_standard(ua)
    \/ \E ua \in user_agents : strategy_fallback_quality(ua)
    \/ \E ua \in user_agents : strategy_audio_fallback(ua)
    \/ \E ua \in user_agents : strategy_minimal_options(ua)

SpecOpts == Init /\ [][OptsNext]_vars

\* ================================================================ claims
Last(q) == q[Len(q)]
Reverse(q) == [k \in 1..Len(q) |-> q[Len(q) + 1 - k]]
SeqSet(q) == { q[k] : k \in 1..Len(q) }

\* The order in which fetch is to try the strategies: standard,
\* reduced quality, audio only, minimal options.
StrategyOrder ==
    << "_strategy_standard", "_strategy_fallback_quality",
       "_strategy_audio_fallback", "_strategy_minimal_options" >>

\* The classification a caller reads off an error text by its status markers.
Classify(r) ==
    IF "403" \in r.markers THEN "AccessForbidden"
    ELSE IF "404" \in r.markers THEN "NotFound"
    ELSE "Other"

\* C1: the strategy runs of one fetch follow the fixed order standard,
\* reduced-quality, audio-only, minimal within every attempt; no strategy run
\* follows a successful one; and a fetch whose last strategy run succeeded has
\* returned that run's Success.
C1_FirstSuccessWins ==
    /\ \A k \in 1..Len(calls) :
         /\ calls[k].strategy = ((k - 1) % 4) + 1
         /\ calls[k].attempt = ((k - 1) \div 4) + 1
         /\ calls[k].name = StrategyOrder[calls[k].strategy]
    /\ \A k \in 1..(Len(calls) - 1) : ~calls[k].ok
    /\ (calls # << >> /\ Last(calls).ok) =>
         /\ fpc \in {"returned", "idle"}
         /\ result = Success(url, Last(calls).strategy)
         /\ result = last_result

\* C1 witness: strategies 1 and 2 failed, strategy 3 succeeded, and fetch
\* returned after exactly 3 strategy runs.
C1_Witness ==
    /\ fpc = "returned"
    /\ result.success
    /\ Len(calls) = 3
    /\ result.file.strategy = 3

\* C2: a fetch never makes more than 4 * retry_count strategy runs, and a
\* fetch that returned Failure made exactly 4 * retry_count of them, one for
\* every attempt x strategy combination.
C2_ExhaustsAllCombinations ==
    /\ Len(calls) <= 4 * retry_count
    /\ (fpc = "returned" /\ ~result.success) =>
         /\ Len(calls) = 4 * retry_count
         /\ { << c.attempt, c.strategy >> : c \in SeqSet(calls) } = (1..retry_count) \X (1..4)
         /\ \A c \in SeqSet(calls) : ~c.ok

\* C2 witness: with retry_count = 3 the fetch returned Failure after 12 runs.
C2_Witness ==
    /\ fpc = "returned"
    /\ ~result.success
    /\ retry_count = 3
    /\ Len(calls) = 12

\* C3 (as claimed): when every backend failure of a fetch carried a "403"
\* marker, the Failure the fetch returns is classified AccessForbidden.
C3_ClassificationSurfaced ==
    (fpc = "returned" /\ ~result.success /\ calls # << >> /\ all403)
        => Classify(result) = "AccessForbidden"

\* C4 (as claimed): the Failure a fetch returns after exhausting its attempts
\* reports the last error the backend gave, with the attempt count.
C4_LastErrorReported ==
    (fpc = "returned" /\ ~result.success /\ calls # << >>)
        => /\ result.error = last_result.error
           /\ result.markers = last_result.markers
           /\ result.attempts = retry_count

C6_NeverRaises ==
    /\ fpc # "raised"
    /\ fpc = "returned" =>
         /\ ~result.raised
         /\ result.success => (result.file # NoFile /\ result.error = "")
         /\ ~result.success => (result.file = NoFile /\ result.error # "")

\* C6 witness: a fetch returned although the backend session could not be
\* constructed in its last strategy run.
C6_Witness ==
    /\ fpc = "returned"
    /\ last_result.raised
    /\ Len(calls) = 4 * retry_count

\* C7: in a batch the fetches made so far are the selected items in selection
\* order, one fetch each; every item whose fetch is over is recorded under
\* exactly one of successful and failed; no item ends the batch early: a
\* batch that is done after a good listing has fetched every selected item.
C7_SkipAndContinue ==
    (listing = "entries") =>
        /\ fetched = SubSeq(filtered_videos, 1, Len(fetched))
        /\ Len(fetched) = (IF bpc = "fetching" THEN idx ELSE idx - 1)
        /\ Len(successful_downloads) + Len(failed_downloads) = idx - 1
        /\ { d.file.video : d \in SeqSet(successful_downloads) }
             \cap { d.video : d \in SeqSet(failed_downloads) } = {}
        /\ { d.file.video : d \in SeqSet(successful_downloads) }
             \cup { d.video : d \in SeqSet(failed_downloads) }
             = { filtered_videos[k] : k \in 1..(idx - 1) }
        /\ bpc = "done" => fetched = filtered_videos

\* C7 witness: a batch of three selected items is done, its first item
\* failed and a later one succeeded.
C7_Witness ==
    /\ bpc = "done"
    /\ Len(filtered_videos) = 3
    /\ Len(failed_downloads) >= 1
    /\ failed_downloads[1].video = filtered_videos[1]
    /\ Len(successful_downloads) >= 1

\* C8: the range slice holds exactly the videos at the 1-based positions p
\* with start_index <= p <= min(end_index, L), in order, where end_index = 0
\* stands for L; indices beyond the collection select nothing and do not fail.
C8_RangeSelection ==
    (listing = "entries") =>
        LET L == Len(playlist_data.videos)
            s == options.start_index
            e == IF options.end_index = 0 THEN L ELSE options.end_index
            hi == IF e < L THEN e ELSE L
            n == IF hi >= s THEN hi - s + 1 ELSE 0
        IN  /\ Len(range_videos) = n
            /\ \A k \in 1..n : range_videos[k] = playlist_data.videos[s + k - 1]

\* C8 witness: a proper sub-range (start after the first item, end before
\* the last) of a three-item collection was selected.
C8_Witness ==
    /\ listing = "entries"
    /\ Len(playlist_data.videos) = 3
    /\ options.start_index = 2
    /\ options.end_index = 2
    /\ Len(range_videos) = 1

\* C8 witness of the clamping: the start index lies beyond the collection.
C8_WitnessClamped ==
    /\ listing = "entries"
    /\ options.start_index > Len(playlist_data.videos)
    /\ range_videos = << >>
    /\ bpc = "done"

\* C9 (as claimed): with reverse_order set, the batch processes the reversed
\* range slice, capped to max_videos after the reversal.
C9_ReverseBeforeCap ==
    (listing = "entries" /\ options.reverse_order) =>
        filtered_videos = PySlice(Reverse(range_videos), 0, options.max_videos)

\* C10: when the listing call failed, the batch is over with the top-level
\* failure shown, no item outcome recorded, no archive, and download_video
\* never called.
C10_ListingFailure ==
    (listing \in {"raise", "no_info"}) =>
        /\ bpc = "done"
        /\ ui_error = "Failed to fetch playlist"
        /\ successful_downloads = << >>
        /\ failed_downloads = << >>
        /\ archive = << >>
        /\ fetched = << >>
        /\ fpc = "idle"
        /\ calls = << >>

\* C10 witness: the listing call raised and the batch is over.
C10_Witness ==
    /\ listing = "raise"
    /\ ~playlist_data.success
    /\ bpc = "done"

\* C11: a finished batch is reported as failed overall exactly when no
\* selected item succeeded (an empty selection included); it is then failed
\* by the "no videos" report, not by an exception, and has no archive; a
\* batch with a success has an archive and no failure report, whatever
\* number of its items failed.
C11_FailedIffNoSuccess ==
    (listing = "entries" /\ bpc = "done") =>
        /\ ui_error # "Playlist download failed"
        /\ (ui_error # "") <=> (successful_downloads = << >>)
        /\ (ui_error # "") =>
              /\ ui_error = "No videos were successfully downloaded from the playlist."
              /\ archive = << >>
        /\ (successful_downloads # << >>) => archive # << >>

\* C11 witness: a finished batch with one failed item among its successes is
\* not reported as failed and has its archive.
C11_Witness ==
    /\ bpc = "done"
    /\ Len(failed_downloads) = 1
    /\ Len(successful_downloads) = 1
    /\ ui_error = ""
    /\ archive # << >>

\* C11 witness of the empty selection: nothing was selected and the batch is
\* reported as failed.
C11_WitnessEmpty ==
    /\ bpc = "done"
    /\ listing = "entries"
    /\ filtered_videos = << >>
    /\ ui_error = "No videos were successfully downloaded from the playlist."

\* The position of video v in the selection.
SelectionPos(v) == CHOOSE k \in 1..Len(filtered_videos) : filtered_videos[k] = v

\* C12: the archive of a finished batch has one entry per successful item,
\* the entries are in selection order, and the i-th entry is the file of the
\* i-th successful item under the three-digit zero-padded ordinal i.
C12_ArchiveOrder ==
    (bpc = "done" /\ successful_downloads # << >>) =>
        /\ Len(archive) = Len(successful_downloads)
        /\ { e.file.video : e \in SeqSet(archive) }
             = SeqSet(fetched) \ { d.video : d \in SeqSet(failed_downloads) }
        /\ \A i \in 1..Len(archive) :
              /\ archive[i].file = successful_downloads[i].file
              /\ archive[i].prefix = << 0, 0, i >>
              /\ \A j \in 1..(i - 1) :
                    SelectionPos(archive[j].file.video) < SelectionPos(archive[i].file.video)

\* C12 witness: all three selected items succeeded and the archive lists
\* them in selection order under 001, 002, 003.
C12_Witness ==
    /\ bpc = "done"
    /\ Len(filtered_videos) = 3
    /\ Len(archive) = 3
    /\ \A i \in 1..3 : archive[i].file.video = filtered_videos[i]
    /\ archive[3].prefix = << 0, 0, 3 >>

\* The record the tracker holds under key k.
Rec(k) == heap[DictGet(downloads, k)]

\* The records of the list the last get_all_downloads call returned.
SnapshotView == [i \in 1..Len(snapshot) |-> heap[snapshot[i]]]

\* C13 (as claimed): in a batch, every item whose fetch has been invoked has
\* a record in the Progress Tracker, and the record of an item whose fetch is
\* over shows the fetch's end (completed or failed).
C13_TrackerAroundFetch ==
    \A k \in 1..Len(fetched) :
        /\ fetched[k] \in DictKeys(downloads)
        /\ (k < idx) => Rec(fetched[k]).status \in {"completed", "failed"}

\* C14 (as claimed): the counts of a PlaylistDownloadResult always agree with
\* its list of results: total_successful is the number of successful
\* results and total_successful + total_failed is the length of the list.
C14_CountsMatchResults ==
    pdr.exists =>
        /\ pdr.total_successful + pdr.total_failed = Len(pdr.download_results)
        /\ pdr.total_successful = CountSuccess(pdr.download_results)

\* C15 (as claimed): the video_count of a PlaylistInfo always equals the
\* length of its videos list, and the total_count of a listing result equals
\* the number of videos it returns.
C15_CountMatchesVideos ==
    /\ pinfo.exists => pinfo.video_count = Len(pinfo.videos)
    /\ playlist_data.total_count = Len(playlist_data.videos)

\* C16 (as claimed): add_download creates a pending record with progress 0
\* under a new id and changes nothing under an id the tracker already holds.
C16_RegisterIdempotent ==
    [][\A id \in VideoIds, title \in Titles :
          add_download(id, title) =>
             IF id \in DictKeys(downloads)
             THEN DictKeys(downloads') = DictKeys(downloads) /\ Rec(id)' = Rec(id)
             ELSE Rec(id)' = NewDownloadProgress(id, title)]_vars

\* C17: update_progress changes nothing under an unknown id (no record is
\* created, no record changes); under a known id it stores the progress,
\* speed, ETA and size given, sets the status to downloading when the
\* progress is above 0, creates no record and changes no other record.
C17_UpdateProgress ==
    [][\A id \in VideoIds, p \in ProgressInputs, meta \in MetaInputs :
          update_progress(id, p, meta) =>
             /\ downloads' = downloads
             /\ IF id \notin DictKeys(downloads)
                THEN heap' = heap
                ELSE /\ Rec(id)'.progress = p
                     /\ Rec(id)'.speed = meta.speed
                     /\ Rec(id)'.eta = meta.eta
                     /\ Rec(id)'.file_size = meta.file_size
                     /\ (p > 0) => Rec(id)'.status = "downloading"
                     /\ \A k \in DictKeys(downloads) \ {id} : Rec(k)' = Rec(k)]_vars

\* C17 witness: "a" was registered and updated to 0.5: it is downloading
\* with progress 0.5 and the speed, ETA and size of the update.
C17_Witness ==
    /\ "a" \in DictKeys(downloads)
    /\ Rec("a").status = "downloading"
    /\ Rec("a").progress = 5
    /\ Rec("a").speed = "1.2MB/s"
    /\ Rec("a").eta = "00:30"
    /\ Rec("a").file_size = "10MB"

\* C18: mark_failed changes nothing under an unknown id; under a known id it
\* sets the status to failed and stores the message, and leaves the
\* record's progress, speed, ETA and size and every other record as they were.
C18_MarkFailed ==
    [][\A id \in VideoIds, msg \in ErrorMessages :
          mark_failed(id, msg) =>
             /\ downloads' = downloads
             /\ IF id \notin DictKeys(downloads)
                THEN heap' = heap
                ELSE /\ Rec(id)'.status = "failed"
                     /\ Rec(id)'.error_message = msg
                     /\ Rec(id)'.progress = Rec(id).progress
                     /\ Rec(id)'.speed = Rec(id).speed
                     /\ Rec(id)'.eta = Rec(id).eta
                     /\ Rec(id)'.file_size = Rec(id).file_size
                     /\ \A k \in DictKeys(downloads) \ {id} : Rec(k)' = Rec(k)]_vars

\* C18 witness: "a" failed at progress 0.5 and kept that progress, next to
\* another record.
C18_Witness ==
    /\ DictKeys(downloads) = {"a", "b"}
    /\ Rec("a").status = "failed"
    /\ Rec("a").error_message = "403 forbidden"
    /\ Rec("a").progress = 5

\* C19: clear_completed removes exactly the records that are completed when
\* it is called and leaves the others in place, unchanged and in order; and
\* a record leaves the tracker in no other step: a record that disappears
\* was completed and disappears in a clear_completed step.
C19_ClearCompleted ==
    [][/\ clear_completed =>
            /\ DictKeys(downloads')
                 = { k \in DictKeys(downloads) : Rec(k).status # "completed" }
            /\ \A k \in DictKeys(downloads') : Rec(k)' = Rec(k)
            /\ downloads' = SelectSeq(downloads,
                                      LAMBDA item : item.key \in DictKeys(downloads'))
       /\ \A k \in DictKeys(downloads) :
            k \notin DictKeys(downloads') =>
               (Rec(k).status = "completed" /\ clear_completed)]_vars

\* C19 witness: the completed record "a" has been removed (the list returned
\* earlier still shows it), the failed record "b" is still there.
C19_Witness ==
    /\ DictKeys(downloads) = {"b"}
    /\ Rec("b").status = "failed"
    /\ \E i \in 1..Len(snapshot) :
          /\ SnapshotView[i].video_id = "a"
          /\ SnapshotView[i].status = "completed"

\* C20 (as claimed): the records of a list that get_all_downloads has
\* returned do not change in any later step.
C20_SnapshotStable ==
    [][snapshot' = snapshot => SnapshotView' = SnapshotView]_vars

\* C22 (as claimed): a record whose status is completed has progress 1.0,
\* right after mark_completed and after whatever operations follow.
C22_CompletedStaysFull ==
    \A k \in DictKeys(downloads) :
        Rec(k).status = "completed" => Rec(k).progress = CompletedProgress

\* C23 (as claimed): every record has one of the four statuses and a
\* progress between 0.0 and 1.0, and the four counts of get_summary add up
\* to the number of records.
C23_RecordsInRange ==
    LET records == [i \in 1..Len(downloads) |-> heap[downloads[i].ref]]
        returned == get_summary(records)
        summary == returned.summary
    IN  /\ \A i \in 1..Len(records) :
              /\ records[i].status \in Statuses
              /\ records[i].progress >= 0
              /\ records[i].progress <= CompletedProgress
        /\ ~returned.raised
        /\ summary["pending"] + summary["downloading"] + summary["completed"]
             + summary["failed"] = Len(records)

\* What call c does to the tracker state st when nothing else runs: the
\* state it leaves and the value it returns.
Sequential(c, st) ==
    LET records == [i \in 1..Len(st.downloads) |-> st.heap[st.downloads[i].ref]]
        known == c.id \in DictKeys(st.downloads)
        ref == DictGet(st.downloads, c.id)
        same == [downloads |-> st.downloads, heap |-> st.heap, returned |-> NoReturn]
    IN  CASE c.name = "add_download" ->
               [same EXCEPT !.downloads = DictSet(st.downloads, c.id, st.next_ref),
                            !.heap = (st.next_ref :> NewDownloadProgress(c.id, c.title)) @@ st.heap]
          [] c.name = "update_progress" /\ known ->
               [same EXCEPT !.heap[ref] = updated_record(@, c.p, c)]
          [] c.name = "mark_completed" /\ known ->
               [same EXCEPT !.heap[ref] = [@ EXCEPT !.status = "completed",
                                                     !.progress = CompletedProgress]]
          [] c.name = "mark_failed" /\ known ->
               [same EXCEPT !.heap[ref] = failed_record(@, c.msg)]
          [] c.name = "get_all_downloads" ->
               [same EXCEPT !.returned.list = [i \in 1..Len(st.downloads) |-> st.downloads[i].ref]]
          [] c.name = "clear_completed" ->
               [same EXCEPT !.downloads = SelectSeq(st.downloads,
                                             LAMBDA item : kept_record(st.heap[item.ref]))]
          [] c.name = "get_summary" ->
               [same EXCEPT !.returned.raised = get_summary(records).raised,
                            !.returned.summary = get_summary(records).summary]
          [] OTHER -> same

InWithBlock == {"body", "release"}

\* C21: the tracker's methods are atomic with respect to each other. At most
\* one thread is inside a with block; the lock is held exactly by the thread
\* that is inside one, so a thread that has left its method holds no lock;
\* and at the end of its with block a method has changed the tracker, and is
\* about to return, exactly as the same call run alone would on the state
\* the thread found when it took the lock: the execution equals the
\* sequential one in the order the lock was taken.
C21_Atomic ==
    /\ \A t, u \in Threads : (tpc[t] \in InWithBlock /\ tpc[u] \in InWithBlock) => t = u
    /\ \A t \in Threads : (lock = t) <=> (tpc[t] \in InWithBlock)
    /\ \A t \in Threads :
          tpc[t] = "release" =>
             LET alone == Sequential(top[t], tpre[t]) IN
               /\ downloads = alone.downloads
               /\ heap = alone.heap
               /\ tres[t] = alone.returned

\* C21 witness: the fetch thread is in the middle of update_progress (it has
\* assigned the progress and the speed, not yet the status) and holds the
\* lock, while the polling thread waits at the lock with get_summary.
C21_Witness ==
    /\ lock = "fetch"
    /\ top["fetch"].name = "update_progress"
    /\ tpc["fetch"] = "body"
    /\ tstep["fetch"] = 3
    /\ top["poll"].name = "get_summary"
    /\ tpc["poll"] = "acquire"

\* C21 witness: the polling thread has counted one downloading record in
\* get_summary and is at the end of its with block.
C21_WitnessSummary ==
    /\ tpc["poll"] = "release"
    /\ top["poll"].name = "get_summary"
    /\ tres["poll"].summary["downloading"] = 1

\* C24: _find_downloaded_file tries its tiers in strict order. If some file's
\* stem contains the sanitized title (ignoring case) it returns such a file;
\* otherwise, if some file's stem contains the id, such a file; otherwise, if
\* some file has a recognized media extension, one of those with the latest
\* modification time; otherwise nothing.
C24_TierOrder ==
    found.called =>
        LET files == { found.dir[i] : i \in 1..Len(found.dir) }
            wanted == Lower(sanitize_for_search(found.title))
            TitleMatches == { f \in files : f.is_file /\ Contains(wanted, Lower(f.stem)) }
            IdMatches == { f \in files : f.is_file /\ Contains(found.video_id, f.stem) }
            Media == { f \in files : f.is_file /\ Lower(f.suffix) \in valid_extensions }
        IN  IF TitleMatches # {} THEN found.path \in TitleMatches
            ELSE IF IdMatches # {} THEN found.path \in IdMatches
            ELSE IF Media # {} THEN /\ found.path \in Media
                                    /\ \A g \in Media : g.mtime <= found.path.mtime
            ELSE found.path = NoPath

\* C24 witness: the first entry of the directory matches the id only, the
\* second matches the title "a:B" (as "Ab"); the second is returned.
C24_Witness ==
    /\ found.called
    /\ found.title = << "a", ":", "B" >>
    /\ found.video_id = << "1" >>
    /\ Len(found.dir) = 2
    /\ found.dir[1].stem = << "A", " ", "B", "1" >>
    /\ found.dir[2].stem = << "A", "b" >>
    /\ found.path = found.dir[2]

\* C24 witness: nothing matches title or id, and of two media files the
\* later one in modification time is returned although it is listed second.
C24_WitnessRecent ==
    /\ found.called
    /\ found.title = << "q" >>
    /\ found.video_id = << "9" >>
    /\ Len(found.dir) = 2
    /\ found.dir[1].mtime = 1
    /\ found.dir[2].mtime = 2
    /\ Lower(found.dir[1].suffix) \in valid_extensions
    /\ found.path = found.dir[2]

PlainTails == { << >>, << "&", "t", "=", "1" >> }
PlainHosts == { << >> } \cup Www

\* C26: every variant form of a valid single-item URL (watch link, short
\* link, shorts link; with or without scheme, with or without www.) is
\* accepted as a video URL, yields the item's 11-character id, and is
\* normalized to what the canonical watch link of that item is normalized to.
C26_VariantsAgree ==
    classified.called =>
        \A sc \in Schemes, h \in PlainHosts, f \in ItemForms, id \in ValidIds, tl \in PlainTails :
            raw_url = sc \o h \o f \o id \o tl =>
                /\ classified.is_video
                /\ classified.video_id = [has |-> TRUE, value |-> id]
                /\ Len(classified.video_id.value) = 11
                /\ classified.normalized
                     = normalize_url(<< "h", "t", "t", "p", "s", ":", "/", "/", "w", "w", "w", ".", "y", "o", "u", "t", "u", "b", "e", ".", "c", "o", "m", "/", "w", "a", "t", "c", "h", "?", "v", "=" >> \o id)
                /\ classified.normalized = << "h", "t", "t", "p", "s", ":", "/", "/", "w", "w", "w", ".", "y", "o", "u", "t", "u", "b", "e", ".", "c", "o", "m", "/", "w", "a", "t", "c", "h", "?", "v", "=" >> \o id

\* C26 witness: the short link without scheme, youtu.be/dQw4w9WgXcQ, was
\* accepted and normalized to the canonical watch link.
C26_Witness ==
    /\ classified.called
    /\ raw_url = << "y", "o", "u", "t", "u", ".", "b", "e", "/", "d", "Q", "w", "4", "w", "9", "W", "g", "X", "c", "Q" >>
    /\ classified.is_video
    /\ classified.video_id.value = << "d", "Q", "w", "4", "w", "9", "W", "g", "X", "c", "Q" >>
    /\ classified.normalized = << "h", "t", "t", "p", "s", ":", "/", "/", "w", "w", "w", ".", "y", "o", "u", "t", "u", "b", "e", ".", "c", "o", "m", "/", "w", "a", "t", "c", "h", "?", "v", "=", "d", "Q", "w", "4", "w", "9", "W", "g", "X", "c", "Q" >>

\* Invalid strings: the empty string, foreign domains, text that is no URL,
\* host-site URLs of no item form, item forms with an id that is too short,
\* and the short and shorts forms under the m. host.
InvalidInputs ==
    OtherInputs
    \cup { sc \o h \o f \o << "a", "b", "c", "1", "2", "3" >> \o tl :
             sc \in Schemes, h \in Hosts, f \in ItemForms, tl \in PlainTails }
    \cup { sc \o << "m", "." >> \o f \o id \o tl :
             sc \in Schemes, f \in { << "y", "o", "u", "t", "u", ".", "b", "e", "/" >>, << "y", "o", "u", "t", "u", "b", "e", ".", "c", "o", "m", "/", "s", "h", "o", "r", "t", "s", "/" >> },
             id \in ValidIds, tl \in PlainTails }

\* C27: an invalid string is reported invalid: is_valid_youtube_url and
\* is_valid_youtube_playlist_url are false, no video id and no playlist id
\* is extracted, and normalize_url returns the string as it is.
C27_InvalidRejected ==
    (classified.called /\ raw_url \in InvalidInputs) =>
        /\ ~classified.is_video
        /\ ~classified.is_playlist
        /\ ~classified.video_id.has
        /\ ~classified.playlist_id.has
        /\ classified.normalized = raw_url

\* C27 witness: a foreign-domain URL whose path holds a whole watch link was
\* reported invalid and left as it is.
C27_Witness ==
    /\ classified.called
    /\ raw_url = << "h", "t", "t", "p", "s", ":", "/", "/", "v", "i", "m", "e", "o", ".", "c", "o", "m", "/", "y", "o", "u", "t", "u", "b", "e", ".", "c", "o", "m", "/", "w", "a", "t", "c", "h", "?", "v", "=", "d", "Q", "w", "4", "w", "9", "W", "g", "X", "c", "Q" >>
    /\ ~classified.is_video
    /\ classified.normalized = raw_url

\* classify's kind and id, as normalize_url decides them: a video URL first,
\* a playlist URL second.
Kind(c) == IF c.is_video THEN "Single" ELSE IF c.is_playlist THEN "Collection" ELSE "Invalid"
IdOf(c) == IF c.is_video THEN c.video_id ELSE IF c.is_playlist THEN c.playlist_id ELSE NoGroup

\* C28: normalization is idempotent: classifying the normalized URL gives the
\* kind, the id and the normalized URL that classifying the original gave,
\* and validate_and_clean_url gives for its cleaned URL the cleaned URL and
\* the validity it gave before.
C28_NormalizeIdempotent ==
    [][/\ ReclassifyNormalized =>
            /\ Kind(classified') = Kind(classified)
            /\ IdOf(classified') = IdOf(classified)
            /\ classified'.normalized = classified.normalized
       /\ ReclassifyCleaned => classified'.cleaned = classified.cleaned]_vars

\* C28 witness: the short link youtu.be/dQw4w9WgXcQ&t=1 was normalized and
\* the normalized URL classified again: it is the canonical watch link, a
\* video URL with the same id.
C28_Witness ==
    /\ classified.reclassified = "normalized"
    /\ classified.origin = << "y", "o", "u", "t", "u", ".", "b", "e", "/", "d", "Q", "w", "4", "w", "9", "W", "g", "X", "c", "Q", "&", "t", "=", "1" >>
    /\ raw_url = << "h", "t", "t", "p", "s", ":", "/", "/", "w", "w", "w", ".", "y", "o", "u", "t", "u", "b", "e", ".", "c", "o", "m", "/", "w", "a", "t", "c", "h", "?", "v", "=", "d", "Q", "w", "4", "w", "9", "W", "g", "X", "c", "Q" >>
    /\ Kind(classified) = "Single"
    /\ classified.normalized = raw_url

\* C29 (as claimed): a playlist link and a watch link with a list parameter
\* are both playlist URLs and both normalized to the canonical playlist link
\* of their list id.
C29_CollectionNormalized ==
    classified.called =>
        \A sc \in Schemes, h \in PlainHosts, pl \in PlaylistIds, id \in ValidIds :
            (\/ raw_url = sc \o h \o << "y", "o", "u", "t", "u", "b", "e", ".", "c", "o", "m", "/", "p", "l", "a", "y", "l", "i", "s", "t", "?", "l", "i", "s", "t", "=" >> \o pl
             \/ raw_url = sc \o h \o << "y", "o", "u", "t", "u", "b", "e", ".", "c", "o", "m", "/", "w", "a", "t", "c", "h", "?", "v", "=" >> \o id \o << "&", "l", "i", "s", "t", "=" >> \o pl) =>
                /\ classified.is_playlist
                /\ classified.playlist_id = [has |-> TRUE, value |-> pl]
                /\ classified.normalized = << "h", "t", "t", "p", "s", ":", "/", "/", "w", "w", "w", ".", "y", "o", "u", "t", "u", "b", "e", ".", "c", "o", "m", "/", "p", "l", "a", "y", "l", "i", "s", "t", "?", "l", "i", "s", "t", "=" >> \o pl

\* The two shapes of a result dict.
IsSuccess(r) == r.success /\ ~r.raised /\ r.file # NoFile /\ r.title # NoTitle /\ r.error = ""
IsFailure(r) == ~r.success /\ ~r.raised /\ r.error # "" /\ r.file = NoFile /\ r.title = NoTitle

\* C30: what download_video returns is exactly one of a Success (a file, a
\* title, no error) and a Failure (an error text, no file, no title); and
\* when a strategy run resolved the item and found its file, download_video
\* makes no further run and returns that Success: the file and the title of
\* the item asked for.
C30_OutcomeShape ==
    /\ fpc = "returned" => (IsSuccess(result) /\ ~IsFailure(result))
                           \/ (IsFailure(result) /\ ~IsSuccess(result))
    /\ last_result.success =>
          /\ fpc \in {"returned", "idle"}
          /\ result = last_result
          /\ IsSuccess(result)
          /\ result.title = url
          /\ result.file.video = url

\* C30 witness: in a batch, the fetch of video 2 failed in its first
\* strategy run, found the file in the second and returned a Success with
\* the title of video 2.
C30_Witness ==
    /\ fpc = "returned"
    /\ caller = "batch"
    /\ url = 2
    /\ Len(calls) = 2
    /\ IsSuccess(result)
    /\ result.title = 2

\* C30 witness: a fetch returned a Failure after all its strategy runs.
C30_WitnessFailure ==
    /\ fpc = "returned"
    /\ IsFailure(result)
    /\ Len(calls) = NumStrategies * retry_count
    /\ retry_count = 2

\* C32: fetch waits one delay of 1.0 to 3.0 seconds before every attempt but
\* the first, and at no other time: while attempt k (0-based) is under way it
\* has waited k times, between two attempts it has waited once per attempt
\* begun after the first, a fetch that failed all retry_count attempts has
\* waited retry_count - 1 times, and a fetch that succeeded in its first
\* attempt has not waited.
C32_BackoffBetweenAttempts ==
    /\ slept = 0 \/ (10 <= slept /\ slept <= 30)
    /\ (fpc = "strategy") => delays = attempt
    /\ (fpc = "strategy" /\ attempt > 0 /\ Len(calls) = NumStrategies * attempt) =>
          (10 <= slept /\ slept <= 30)
    /\ (fpc = "attempt_loop") => delays = Max(attempt - 1, 0)
    /\ (fpc = "returned" /\ ~result.success) => delays = retry_count - 1
    /\ (fpc = "returned" /\ result.success /\ Last(calls).attempt = 1) => delays = 0

\* A fetch of three attempts has failed all of them and has waited twice.
C32_Witness ==
    /\ fpc = "returned"
    /\ ~result.success
    /\ retry_count = 3
    /\ Len(calls) = NumStrategies * 3
    /\ delays = 2

\* The third attempt of a fetch is about to start after the longest delay.
C32_WitnessDelay ==
    /\ fpc = "strategy"
    /\ attempt = 2
    /\ Len(calls) = NumStrategies * 2
    /\ slept = 30

\* A failure dict of the backend whose text carries no 403 and no 404 marker.
IsOtherFailure(r) ==
    /\ ~r.success
    /\ ~r.raised
    /\ r.error \in {"Download error: <msg>", "Unexpected error: <msg>"}
    /\ r.markers = {}

\* C33 (as claimed): when a strategy run fails with an error of class Other
\* and the run after it fails in the same way, that second run is the last
\* backend call of the fetch, and the fetch returns a Failure whose message is
\* the backend's error text.
C33_OtherRetriedOnce ==
    [][(/\ fpc = "strategy"
        /\ IsOtherFailure(last_result)
        /\ Len(calls') = Len(calls) + 1
        /\ IsOtherFailure(last_result'))
       => (/\ fpc' = "returned"
           /\ ~result'.success
           /\ result'.error = last_result'.error)]_vars

\* C31: the configuration the standard strategy requests depends on the
\* downloader's quality and format type alone: for format type
\* "mp3 (audio only)" the selector is 'bestaudio/best' and there is a
\* post-processor; for any other format type F with quality 'best' the
\* selector is 'best[ext=F]/best' ('best[ext=mp4]/best' for the default
\* format type) without post-processing; and two standard configurations built
\* for the same quality and format type differ in nothing but the user agent.
C31_StandardSelector ==
    (Len(ydl_opts) >= 1) =>
        LET standard == ydl_opts[1] IN
        /\ (format_type = "mp3 (audio only)") =>
              /\ standard.format = "bestaudio/best"
              /\ standard.postprocessors # << >>
        /\ (format_type # "mp3 (audio only)" /\ quality = "best") =>
              /\ standard.format = "best[ext=" \o format_type \o "]/best"
              /\ standard.postprocessors = << >>
        /\ (format_type = "mp4" /\ quality = "best") =>
              standard.format = "best[ext=mp4]/best"
        /\ \A ua \in user_agents :
              LET again == get_ydl_opts(quality, format_type, ua) IN
              /\ again.format = standard.format
              /\ again.postprocessors = standard.postprocessors

\* The standard configuration was built for quality 'best' and format webm.
C31_Witness ==
    /\ quality = "best"
    /\ format_type = "webm"
    /\ Len(ydl_opts) >= 1
    /\ ydl_opts[1].format = "best[ext=webm]/best"
    /\ ydl_opts[1].postprocessors = << >>

\* The standard configuration was built for format "mp3 (audio only)".
C31_WitnessAudio ==
    /\ format_type = "mp3 (audio only)"
    /\ Len(ydl_opts) >= 1
    /\ ydl_opts[1].format = "bestaudio/best"
    /\ ydl_opts[1].postprocessors = << FFmpegExtractAudio >>

\* What a configuration requests of the backend.
RequestOf(opts) == << opts.format, opts.postprocessors >>

\* C34 (as claimed): whatever the quality and the format type, the four
\* configurations built in one pass through the strategies request four
\* different things (format selector together with post-processing).
C34_StrategiesDistinct ==
    (Len(ydl_opts) = NumStrategies) =>
        \A i, j \in 1..NumStrategies :
            (i < j) => RequestOf(ydl_opts[i]) # RequestOf(ydl_opts[j])

\* C35 (as claimed): the number of videos a batch selects is the smaller of
\* the options' max_videos and the length of the range slice, whatever
\* max_videos (1 to 100) the form passes.
C35_CapIsMaxItems ==
    selection.called =>
        LET videos == [k \in 1..selection.total_videos |-> k] IN
        selection.count = Min(selection.options.max_videos,
                              Len(RangeSlice(videos, selection.options)))

\* C36: a call of _find_downloaded_file returns None only when output_dir
\* holds no file with one of the recognized media extensions: with at least
\* one such file in the directory the call returns a path, whatever the title
\* and the id searched for.
C36_NotFoundOnlyWithoutMedia ==
    found.called =>
        ((\E i \in 1..Len(found.dir) :
              /\ found.dir[i].is_file
              /\ Lower(found.dir[i].suffix) \in valid_extensions)
         => found.path # NoPath)

\* A search whose title and id match no entry returned the one media file of
\* the directory.
C36_Witness ==
    /\ found.called
    /\ found.title = << "q" >>
    /\ found.video_id = << "9" >>
    /\ Len(found.dir) = 2
    /\ \E i \in 1..2 : Name(found.dir[i]) = << "z", ".", "m", "p", "4" >>
    /\ \E i \in 1..2 : ~found.dir[i].is_file
    /\ Name(found.path) = << "z", ".", "m", "p", "4" >>

\* A search in a directory without a media file returned None.
C36_WitnessNone ==
    /\ found.called
    /\ Len(found.dir) = 1
    /\ found.dir[1].is_file
    /\ found.path = NoPath

\* C37 (as claimed): of the runs made in one output directory, every
\* successful one returns the file that this run itself wrote, and no two
\* successful runs return a file of the same name.
C37_OwnArtifact ==
    \A i \in 1..Len(runs) :
        (runs[i].path # NoPath) =>
            /\ runs[i].wrote # NoPath
            /\ runs[i].path = runs[i].wrote
            /\ \A j \in 1..(i - 1) :
                  (runs[j].path # NoPath) => Name(runs[j].path) # Name(runs[i].path)

\* C38 (as claimed): a record whose status is completed or failed keeps that
\* status through every tracker operation for as long as its id is in the
\* tracker.
C38_TerminalStatuses ==
    [][\A i \in 1..Len(downloads) :
          LET id == downloads[i].key
              status == heap[downloads[i].ref].status
          IN  (status \in {"completed", "failed"} /\ id \in DictKeys(downloads'))
                  => heap'[DictGet(downloads', id)].status = status]_vars

\* C39 (as claimed): when a render has shown its rows, the count the summary
\* fetched in that render gives for each status is the number of rows shown
\* with that status.
C39_CountsMatchRows ==
    (render.pc = "shown") =>
        \A s \in Statuses :
            render.summary[s] =
                Cardinality({ i \in 1..Len(render.rows) : render.rows[i] = s })
====
